---- MODULE Spec2Model ----
(***************************************************************************)
(* A model of scripts/validate.py: the ValidationResult severity model,    *)
(* the plugin.json validator, the marketplace.json validator and the       *)
(* aggregation done by main.                                               *)
(*                                                                         *)
(* Strings whose characters matter (names, versions, paths) are sequences  *)
(* of one-character strings; the regular expressions are the automata of   *)
(* the two compiled patterns, run the way re.match runs them.              *)
(***************************************************************************)
EXTENDS Integers, Sequences, FiniteSets, TLC

VARIABLES
    pc,                \* position of the operation under analysis
    self,              \* the validator whose validate() is called
    result,            \* the ValidationResult the operation builds
    opened,            \* directories whose plugin.json has been opened
    tree,              \* directories that exist on disk
    files,             \* directory -> its .claude-plugin/plugin.json file
    marketplace_json,  \* <root>/.claude-plugin/marketplace.json
    listing,           \* iterdir of <root>/plugins: each plugin, with its skills/ listing
    inspector,         \* qualified skill name -> how the skills-ref run ends
    processes,         \* the processes of the inspector run: program and state
    run_calls,         \* the argument vectors passed to subprocess.run, in order
    options,           \* main's command line options
    root_result,       \* main's locals
    marketplace_result,
    plugin_results,
    skill_results,
    plugins_to_validate,
    skills,
    exit_code          \* the process exit status, once main has ended

disk == <<tree, files, marketplace_json, listing, inspector, processes, run_calls>>

main_vars == <<options, root_result, marketplace_result, plugin_results,
               skill_results, plugins_to_validate, skills, exit_code>>

vars == <<pc, self, result, opened, disk, main_vars>>

----------------------------------------------------------------------------
(* Bounds of the model. *)

MaxIssues == 3          \* add calls made on one ValidationResult
MaxNameLen == 4         \* characters of a generated name
MaxVersionTokens == 5   \* tokens of a generated version string
MaxLineno == 2          \* line a JSON syntax error is reported at
MaxPathLen == 4         \* characters of a generated path string
MaxEntries == 3         \* entries of a generated registry
MaxSourceLen == 4       \* characters of a generated source string
MaxPlugins == 2         \* plugin directories under <root>/plugins

----------------------------------------------------------------------------
(* ValidationIssue and ValidationResult (validate.py 37-66). *)

NoLine == 0          \* models line = None (json line numbers start at 1)

NoText == <<>>       \* no value interpolated into the message

ValidationIssue(severity, check, message, about, file, line) ==
    [severity |-> severity, check |-> check, message |-> message,
     about |-> about, file |-> file, line |-> line]

ValidationResult(status) ==
    [status |-> status, errors |-> <<>>, warnings |-> <<>>, info |-> <<>>]

None == ValidationResult("None")     \* no Result object

add_error_downgrades(r, check, message, about, file, line) ==
    [r EXCEPT !.errors = Append(@, ValidationIssue("error", check, message, about, file, line)),
              !.status = IF r.warnings # <<>> THEN "warning" ELSE "failed"]

add_error(r, check, message, about, file, line) ==
    [r EXCEPT !.errors = Append(@, ValidationIssue("error", check, message, about, file, line)),
              !.status = IF r.status # "failed" THEN "failed" ELSE @]

add_warning_always(r, check, message, about, file, line) ==
    [r EXCEPT !.warnings = Append(@, ValidationIssue("warning", check, message, about, file, line)),
              !.status = "warning"]

add_warning(r, check, message, about, file, line) ==
    [r EXCEPT !.warnings = Append(@, ValidationIssue("warning", check, message, about, file, line)),
              !.status = IF r.status = "passed" THEN "warning" ELSE @]

add_info_prepends(r, check, message, about, file) ==
    [r EXCEPT !.info = <<ValidationIssue("info", check, message, about, file, NoLine)>> \o @]

add_info(r, check, message, about, file) ==
    [r EXCEPT !.info = Append(@, ValidationIssue("info", check, message, about, file, NoLine))]

----------------------------------------------------------------------------
(* Parsed JSON values.  t is the Python type name of the value; s holds    *)
(* the characters of a str, items the elements of a list, keys the keys of *)
(* a dict.                                                                 *)

JStr(s) == [t |-> "str", s |-> s, items |-> <<>>, keys |-> {}]
JInt == [t |-> "int", s |-> <<>>, items |-> <<>>, keys |-> {}]
JNone == [t |-> "NoneType", s |-> <<>>, items |-> <<>>, keys |-> {}]
JList(items) == [t |-> "list", s |-> <<>>, items |-> items, keys |-> {}]
JDict(keys) == [t |-> "dict", s |-> <<>>, items |-> <<>>, keys |-> keys]

isinstance(v, t) == v.t = t

StartsWith(s, prefix) ==
    /\ Len(s) >= Len(prefix)
    /\ SubSeq(s, 1, Len(prefix)) = prefix

\* All strings over alphabet of length at most n.
StringsUpTo(alphabet, n) == UNION {[1..k -> alphabet] : k \in 0..n}

LowerChars == {"a","b","c","d","e","f","g","h","i","j","k","l","m",
               "n","o","p","q","r","s","t","u","v","w","x","y","z"}
UpperChars == {"A","B","C","D","E","F","G","H","I","J","K","L","M",
               "N","O","P","Q","R","S","T","U","V","W","X","Y","Z"}
DigitChars == {"0","1","2","3","4","5","6","7","8","9"}

----------------------------------------------------------------------------
(* The compiled patterns (validate.py 25-28) and re.match.                 *)
(* Each pattern is its automaton; the trailing $ of both patterns matches  *)
(* at the end of the string and also just before a newline that ends the   *)
(* string, as Python's $ does without re.MULTILINE.                        *)

\* ^[a-z][a-z0-9]*(-[a-z0-9]+)*$
PluginNameStep(q, c) ==
    CASE q = "start" /\ c \in LowerChars -> "head"
      [] q = "head" /\ c \in LowerChars \cup DigitChars -> "head"
      [] q = "head" /\ c = "-" -> "dash"
      [] q = "dash" /\ c \in LowerChars \cup DigitChars -> "seg"
      [] q = "seg" /\ c \in LowerChars \cup DigitChars -> "seg"
      [] q = "seg" /\ c = "-" -> "dash"
      [] OTHER -> "dead"

PluginNameAccepting == {"head", "seg"}

RECURSIVE PluginNameRun(_, _, _)
\* The automaton's state after the first k characters of s, from state q.
PluginNameRun(q, s, k) ==
    IF k = 0 THEN q
    ELSE PluginNameStep(PluginNameRun(q, s, k - 1), s[k])

\* ^\d+\.\d+\.\d+(-[a-zA-Z0-9.]+)?(\+[a-zA-Z0-9.]+)?$
SemverSuffixChars == LowerChars \cup UpperChars \cup DigitChars \cup {"."}

SemverStep(q, c) ==
    CASE q = "start" /\ c \in DigitChars -> "major"
      [] q = "major" /\ c \in DigitChars -> "major"
      [] q = "major" /\ c = "." -> "dot1"
      [] q = "dot1" /\ c \in DigitChars -> "minor"
      [] q = "minor" /\ c \in DigitChars -> "minor"
      [] q = "minor" /\ c = "." -> "dot2"
      [] q = "dot2" /\ c \in DigitChars -> "patch"
      [] q = "patch" /\ c \in DigitChars -> "patch"
      [] q = "patch" /\ c = "-" -> "hyphen"
      [] q = "patch" /\ c = "+" -> "plus"
      [] q = "hyphen" /\ c \in SemverSuffixChars -> "pre"
      [] q = "pre" /\ c \in SemverSuffixChars -> "pre"
      [] q = "pre" /\ c = "+" -> "plus"
      [] q = "plus" /\ c \in SemverSuffixChars -> "build"
      [] q = "build" /\ c \in SemverSuffixChars -> "build"
      [] OTHER -> "dead"

SemverAccepting == {"patch", "pre", "build"}

RECURSIVE SemverRun(_, _, _)
SemverRun(q, s, k) ==
    IF k = 0 THEN q
    ELSE SemverStep(SemverRun(q, s, k - 1), s[k])

\* Python's $ at position k of s (k characters consumed): the end of the
\* string, or just before a newline that ends it.
Dollar(s, k) ==
    \/ k = Len(s)
    \/ k = Len(s) - 1 /\ s[Len(s)] = "\n"

PLUGIN_NAME_PATTERN_match(s) ==
    \E k \in 0..Len(s) :
        /\ PluginNameRun("start", s, k) \in PluginNameAccepting
        /\ Dollar(s, k)

SEMVER_PATTERN_match(s) ==
    \E k \in 0..Len(s) :
        /\ SemverRun("start", s, k) \in SemverAccepting
        /\ Dollar(s, k)

----------------------------------------------------------------------------
(* The disk.  A path is the list of its components from the filesystem     *)
(* root, each component a string of characters; tree is the set of paths   *)
(* that exist (all of them directories, no symbolic links).                *)

DotDot == <<".", ".">>

\* The last component read so far, as pathlib keeps it: "" and "." are dropped.
PathPart(cur) == IF cur = <<>> \/ cur = <<".">> THEN <<>> ELSE <<cur>>

RECURSIVE PathParts(_, _)
\* The components of the path string s; cur is the component being read.
PathParts(s, cur) ==
    IF s = <<>> THEN PathPart(cur)
    ELSE IF Head(s) = "/" THEN PathPart(cur) \o PathParts(Tail(s), <<>>)
    ELSE PathParts(Tail(s), Append(cur, Head(s)))

\* pathlib's base / s: an absolute s replaces base.
PathJoin(base, s) ==
    IF StartsWith(s, <<"/">>) THEN PathParts(s, <<>>)
    ELSE base \o PathParts(s, <<>>)

PathParent(path) ==
    IF path = <<>> THEN <<>> ELSE SubSeq(path, 1, Len(path) - 1)

RECURSIVE PathWalk(_, _, _)
\* The lookup the operating system does: ".." moves to the parent directory.
PathWalk(t, cur, parts) ==
    IF cur \notin t THEN FALSE
    ELSE IF parts = <<>> THEN TRUE
    ELSE IF Head(parts) = DotDot THEN PathWalk(t, PathParent(cur), Tail(parts))
    ELSE PathWalk(t, Append(cur, Head(parts)), Tail(parts))

\* Path.exists()
exists(t, path) == PathWalk(t, <<>>, path)

RECURSIVE lstrip(_, _)
\* str.lstrip(chars): drops every leading character that is in chars.
lstrip(s, chars) ==
    IF s # <<>> /\ Head(s) \in chars THEN lstrip(Tail(s), chars) ELSE s

\* What removing one leading "./" would be.
removeprefix(s, prefix) ==
    IF StartsWith(s, prefix) THEN SubSeq(s, Len(prefix) + 1, Len(s)) ELSE s

PluginRoot == << <<"p">> >>      \* plugin_path

BareTree == {<<>>, PluginRoot}

----------------------------------------------------------------------------
(* A document file: kind is how open/json.load end; for kind "json", top   *)
(* is the Python type of the parsed document and keys/val are its fields.  *)

ManifestKeys == {"name", "version", "author", "license", "repository",
                 "keywords", "commands", "agents", "skills"}

NoFields == [k \in ManifestKeys |-> JNone]

NoFile == [kind |-> "missing", lineno |-> NoLine, top |-> "none",
           keys |-> {}, val |-> NoFields]

MalformedFile(lineno) == [NoFile EXCEPT !.kind = "malformed", !.lineno = lineno]

UnreadableFile == [NoFile EXCEPT !.kind = "unreadable"]

JsonFile(top, keys, val) ==
    [kind |-> "json", lineno |-> NoLine, top |-> top, keys |-> keys, val |-> val]

\* The plugin.json file of directory d.
FileAt(fs, d) == IF d \in DOMAIN fs THEN fs[d] ELSE NoFile

\* The registry document: owner and plugins are the values of its fields.
NoRegistry == [kind |-> "missing", lineno |-> NoLine, top |-> "none",
               keys |-> {}, owner |-> JNone, plugins |-> JNone]

\* The plugin.json under the plugin root.
plugin_json == FileAt(files, PluginRoot)

\* A manifest object holding exactly the fields of the function f.
Manifest(f) ==
    JsonFile("dict", DOMAIN f,
             [k \in ManifestKeys |-> IF k \in DOMAIN f THEN f[k] ELSE JNone])

----------------------------------------------------------------------------
(* PluginJsonValidator (validate.py 69-292).                               *)

PluginJsonPath == ".claude-plugin/plugin.json"     \* str(self.plugin_json_path)

SPDX_LICENSES ==
    { <<"M","I","T">>,
      <<"A","p","a","c","h","e","-","2",".","0">>,
      <<"B","S","D","-","2","-","C","l","a","u","s","e">>,
      <<"B","S","D","-","3","-","C","l","a","u","s","e">>,
      <<"I","S","C">>,
      <<"G","P","L","-","3",".","0">>,
      <<"L","G","P","L","-","3",".","0">>,
      <<"M","P","L","-","2",".","0">> }

_validate_name(name, r) ==
    IF ~isinstance(name, "str")
    THEN add_error(r, "name_type", "Plugin name must be string, got {}",
                   <<name.t>>, PluginJsonPath, NoLine)
    ELSE IF ~PLUGIN_NAME_PATTERN_match(name.s)
    THEN add_error(r, "name_format",
                   "Plugin name {} must be kebab-case, lowercase, no spaces",
                   name.s, PluginJsonPath, NoLine)
    ELSE r

_validate_version(version, r) ==
    IF ~isinstance(version, "str")
    THEN add_error(r, "version_type", "Version must be string, got {}",
                   <<version.t>>, PluginJsonPath, NoLine)
    ELSE IF ~SEMVER_PATTERN_match(version.s)
    THEN add_error(r, "version_format",
                   "Version {} must follow semantic versioning (MAJOR.MINOR.PATCH)",
                   version.s, PluginJsonPath, NoLine)
    ELSE r

\* _validate_author without the suggestion that follows 'author_format'.
_validate_author_without_fix(author, r) ==
    IF isinstance(author, "str")
    THEN add_error(r, "author_format",
                   "Author must be object with name field, not string. Found: {}",
                   author.s, PluginJsonPath, NoLine)
    ELSE IF isinstance(author, "dict")
    THEN IF "name" \notin author.keys
         THEN add_error(r, "author_name", "Author object must have name field",
                        NoText, PluginJsonPath, NoLine)
         ELSE r
    ELSE add_error(r, "author_type", "Author must be object, got {}",
                   <<author.t>>, PluginJsonPath, NoLine)

_validate_author(author, r) ==
    IF isinstance(author, "str")
    THEN add_info(
            add_error(r, "author_format",
                      "Author must be object with name field, not string. Found: {}",
                      author.s, PluginJsonPath, NoLine),
            "author_fix", "Change to: {name: {}}", author.s, PluginJsonPath)
    ELSE IF isinstance(author, "dict")
    THEN IF "name" \notin author.keys
         THEN add_error(r, "author_name", "Author object must have name field",
                        NoText, PluginJsonPath, NoLine)
         ELSE r
    ELSE add_error(r, "author_type", "Author must be object, got {}",
                   <<author.t>>, PluginJsonPath, NoLine)

_validate_license(license, r) ==
    IF ~isinstance(license, "str")
    THEN add_error(r, "license_type", "License must be string, got {}",
                   <<license.t>>, PluginJsonPath, NoLine)
    ELSE IF license.s \notin SPDX_LICENSES
    THEN add_warning(r, "license_spdx", "License {} not in common SPDX list",
                     license.s, PluginJsonPath, NoLine)
    ELSE r

_validate_repository(repository, r) ==
    IF ~isinstance(repository, "str")
    THEN add_error(r, "repository_type", "Repository must be string, got {}",
                   <<repository.t>>, PluginJsonPath, NoLine)
    ELSE IF ~(\/ StartsWith(repository.s, <<"h","t","t","p",":","/","/">>)
              \/ StartsWith(repository.s, <<"h","t","t","p","s",":","/","/">>))
    THEN add_warning(r, "repository_url", "Repository should be a valid URL",
                     NoText, PluginJsonPath, NoLine)
    ELSE r

RECURSIVE keywords_loop(_, _, _)
\* for i, keyword in enumerate(keywords), from the element at index i on.
keywords_loop(keywords, i, r) ==
    IF i > Len(keywords) THEN r
    ELSE keywords_loop(keywords, i + 1,
            IF ~isinstance(keywords[i], "str")
            THEN add_error(r, "keyword_type",
                           "Keyword at index {} must be string, got {}",
                           <<ToString(i - 1), keywords[i].t>>, PluginJsonPath, NoLine)
            ELSE r)

_validate_keywords(keywords, r) ==
    IF ~isinstance(keywords, "list")
    THEN add_error(r, "keywords_type", "Keywords must be array, got {}",
                   <<keywords.t>>, PluginJsonPath, NoLine)
    ELSE keywords_loop(keywords.items, 1, r)

\* The body of the loop of _validate_paths for one element.
validate_path_str(plugin_path, field, path_str, t, r) ==
    IF ~isinstance(path_str, "str") THEN r
    ELSE
      LET r1 == IF StartsWith(path_str.s, <<"/">>)
                THEN add_error(r, field \o "_absolute",
                               "Path {} must be relative, not absolute",
                               path_str.s, PluginJsonPath, NoLine)
                ELSE r
          r2 == IF ~StartsWith(path_str.s, <<".", "/">>)
                THEN add_warning(r1, field \o "_prefix",
                                 "Path {} should start with ./ prefix",
                                 path_str.s, PluginJsonPath, NoLine)
                ELSE r1
          full_path == PathJoin(plugin_path, lstrip(path_str.s, {".", "/"}))
      IN IF ~exists(t, full_path)
         THEN add_error(r2, field \o "_exists", "Path {} does not exist",
                        path_str.s, PluginJsonPath, NoLine)
         ELSE r2

RECURSIVE paths_loop(_, _, _, _, _)
paths_loop(plugin_path, field, paths, t, r) ==
    IF paths = <<>> THEN r
    ELSE paths_loop(plugin_path, field, Tail(paths), t,
                    validate_path_str(plugin_path, field, Head(paths), t, r))

\* _validate_paths without the normalisation of a bare string: the loop
\* runs over the characters of the string.
_validate_paths_iterates_string(plugin_path, field, paths, t, r) ==
    IF isinstance(paths, "str")
    THEN paths_loop(plugin_path, field,
                    [i \in 1..Len(paths.s) |-> JStr(<<paths.s[i]>>)], t, r)
    ELSE IF ~isinstance(paths, "list")
    THEN add_error(r, field \o "_type", "{} must be string or array, got {}",
                   <<field, paths.t>>, PluginJsonPath, NoLine)
    ELSE paths_loop(plugin_path, field, paths.items, t, r)

_validate_paths(plugin_path, field, paths, t, r) ==
    IF isinstance(paths, "str") THEN paths_loop(plugin_path, field, <<paths>>, t, r)
    ELSE IF ~isinstance(paths, "list")
    THEN add_error(r, field \o "_type", "{} must be string or array, got {}",
                   <<field, paths.t>>, PluginJsonPath, NoLine)
    ELSE paths_loop(plugin_path, field, paths.items, t, r)

\* One optional field of validate: "if key in data: check(data[key], result)".
IfPresent(data, key, checked, r) == IF key \in data.keys THEN checked ELSE r

\* validate returning at the first error, after the missing name.
validate_fields_stops_at_name(plugin_path, data, t, r) ==
    IF "name" \notin data.keys
    THEN add_error(r, "required_field", "Missing required field: name",
                   NoText, PluginJsonPath, NoLine)
    ELSE IfPresent(data, "version", _validate_version(data.val["version"], r),
                   _validate_name(data.val["name"], r))

\* validate, lines 107-138, on a parsed object or list (key lookups work).
validate_fields(plugin_path, data, t, r) ==
    LET r1 == IF "name" \notin data.keys
              THEN add_error(r, "required_field", "Missing required field: name",
                             NoText, PluginJsonPath, NoLine)
              ELSE _validate_name(data.val["name"], r)
        r2 == IfPresent(data, "version", _validate_version(data.val["version"], r1), r1)
        r3 == IfPresent(data, "author", _validate_author(data.val["author"], r2), r2)
        r4 == IfPresent(data, "license", _validate_license(data.val["license"], r3), r3)
        r5 == IfPresent(data, "repository",
                        _validate_repository(data.val["repository"], r4), r4)
        r6 == IfPresent(data, "keywords", _validate_keywords(data.val["keywords"], r5), r5)
        r7 == IfPresent(data, "commands",
                        _validate_paths(plugin_path, "commands", data.val["commands"], t, r6), r6)
        r8 == IfPresent(data, "agents",
                        _validate_paths(plugin_path, "agents", data.val["agents"], t, r7), r7)
        r9 == IfPresent(data, "skills",
                        _validate_paths(plugin_path, "skills", data.val["skills"], t, r8), r8)
    IN r9

\* A call's outcome: the Result it returns, or raised when an exception
\* leaves it (the Result built so far is then lost to the caller).
Returned(r) == [raised |-> FALSE, result |-> r]
Raised(r) == [raised |-> TRUE, result |-> r]

\* PluginJsonValidator(plugin_path).validate()
PluginJsonValidator_validate(plugin_path, t, fs) ==
    LET r == ValidationResult("passed")
        file == FileAt(fs, plugin_path)
    IN
    CASE file.kind = "missing" ->
            Returned(add_error(r, "file_exists", "plugin.json not found",
                               NoText, PluginJsonPath, NoLine))
      [] file.kind = "malformed" ->
            Returned(add_error(r, "json_syntax", "Invalid JSON: {}",
                               NoText, PluginJsonPath, file.lineno))
      [] file.kind = "unreadable" ->
            Returned(add_error(r, "file_read", "Failed to read file: {}",
                               NoText, PluginJsonPath, NoLine))
      [] file.kind = "json" /\ file.top = "dict" ->
            Returned(validate_fields(plugin_path, file, t, r))
      [] file.kind = "json" /\ file.top = "list" /\ file.keys = {} ->
            Returned(validate_fields(plugin_path, file, t, r))
      \* a list holding a key string: data[key] raises TypeError;
      \* an int or None document: 'name' not in data raises TypeError
      [] OTHER -> Raised(r)

----------------------------------------------------------------------------
(* MarketplaceValidator (validate.py 295-469).                             *)

MarketplacePath == ".claude-plugin/marketplace.json"   \* str(self.marketplace_json)

MarketRoot == << <<"m">> >>      \* self.root

EntryKeys == {"name", "source", "version", "author"}

\* A registry entry: a dict holding exactly the fields of the function f.
Entry(f) ==
    [t |-> "dict", keys |-> DOMAIN f,
     val |-> [k \in EntryKeys |-> IF k \in DOMAIN f THEN f[k] ELSE JNone]]

\* A registry entry that is not an object.
ScalarEntry(t) == [t |-> t, keys |-> {}, val |-> [k \in EntryKeys |-> JNone]]

RegistryFile(top, keys, owner, plugins) ==
    [kind |-> "json", lineno |-> NoLine, top |-> top, keys |-> keys,
     owner |-> owner, plugins |-> plugins]

RECURSIVE PathResolve(_, _)
\* The directory the lookup of parts from cur ends in.
PathResolve(cur, parts) ==
    IF parts = <<>> THEN cur
    ELSE IF Head(parts) = DotDot THEN PathResolve(PathParent(cur), Tail(parts))
    ELSE PathResolve(Append(cur, Head(parts)), Tail(parts))

\* dict.get(key): None when the key is absent.
get(data, key) == IF key \in data.keys THEN data.val[key] ELSE JNone

\* What a call of _validate_plugin_entry leaves behind.
EntryOutcome(raised, r, names, seen) ==
    [raised |-> raised, result |-> r, plugin_names |-> names, opened |-> seen]

\* The try block with the version comparison under the else of the name's.
cross_reference_elif(entry, name, dir, fs, r) ==
    LET file == FileAt(fs, dir) IN
    IF file.kind # "json" \/ file.top # "dict"
    THEN add_warning(r, "plugin_json_read", "Could not read plugin.json for {}: {}",
                     name.s, MarketplacePath, NoLine)
    ELSE IF get(file, "name") # name
    THEN add_error(r, "name_mismatch",
                   "Plugin name mismatch: marketplace says {}, plugin.json says {}",
                   name.s \o get(file, "name").s, MarketplacePath, NoLine)
    ELSE IF /\ "version" \in entry.keys /\ "version" \in file.keys
            /\ entry.val["version"] # file.val["version"]
    THEN add_error(r, "version_mismatch",
                   "Plugin {} version mismatch: marketplace={}, plugin.json={}",
                   name.s, MarketplacePath, NoLine)
    ELSE r

\* The try block reporting a manifest that cannot be loaded as an error.
cross_reference_read_error(entry, name, dir, fs, r) ==
    LET file == FileAt(fs, dir) IN
    IF file.kind # "json" \/ file.top # "dict"
    THEN add_error(r, "plugin_json_read", "Could not read plugin.json for {}: {}",
                   name.s, MarketplacePath, NoLine)
    ELSE cross_reference_elif(entry, name, dir, fs, r)

\* Lines 433-469: the try block on the plugin.json found under source_path.
cross_reference(entry, name, dir, fs, r) ==
    LET file == FileAt(fs, dir) IN
    IF file.kind # "json" \/ file.top # "dict"
    THEN \* open, json.load or plugin_data.get raised: except Exception
         add_warning(r, "plugin_json_read", "Could not read plugin.json for {}: {}",
                     name.s, MarketplacePath, NoLine)
    ELSE
      LET r1 == IF get(file, "name") # name
                THEN add_error(r, "name_mismatch",
                               "Plugin name mismatch: marketplace says {}, plugin.json says {}",
                               name.s \o get(file, "name").s, MarketplacePath, NoLine)
                ELSE r
          r2 == IF /\ "version" \in entry.keys /\ "version" \in file.keys
                   /\ entry.val["version"] # file.val["version"]
                THEN add_error(r1, "version_mismatch",
                               "Plugin {} version mismatch: marketplace={}, plugin.json={}",
                               name.s, MarketplacePath, NoLine)
                ELSE r1
          r3 == IF "author" \in entry.keys /\ isinstance(entry.val["author"], "str")
                THEN add_error(r2, "author_format_marketplace",
                               "Plugin {} author in marketplace.json must be object, not string",
                               name.s, MarketplacePath, NoLine)
                ELSE r2
      IN r3

\* Lines 394-431 and the try block: the source checks of an entry named name.
source_checks(root, entry, name, names, seen, t, fs, r) ==
    IF "source" \notin entry.keys
    THEN EntryOutcome(FALSE,
            add_error(r, "plugin_source_missing", "Plugin {} missing source field",
                      name.s, MarketplacePath, NoLine), names, seen)
    ELSE LET source == entry.val["source"] IN
    IF ~isinstance(source, "str")
    THEN EntryOutcome(FALSE,
            add_error(r, "source_type", "Plugin {} source must be string",
                      name.s, MarketplacePath, NoLine), names, seen)
    ELSE LET source_path == PathJoin(root, lstrip(source.s, {".", "/"})) IN
    IF ~exists(t, source_path)
    THEN EntryOutcome(FALSE,
            add_error(r, "source_path_missing",
                      "Plugin {} source path does not exist: {}",
                      name.s \o source.s, MarketplacePath, NoLine), names, seen)
    ELSE LET dir == PathResolve(<<>>, source_path) IN
    IF FileAt(fs, dir).kind = "missing"
    THEN EntryOutcome(FALSE,
            add_error(r, "plugin_json_missing",
                      "Plugin {} missing .claude-plugin/plugin.json at {}",
                      name.s \o source.s, MarketplacePath, NoLine), names, seen)
    ELSE EntryOutcome(FALSE, cross_reference(entry, name, dir, fs, r),
                      names, seen \cup {dir})

\* _validate_plugin_entry recording the name only once the entry has a source.
_validate_plugin_entry_adds_late(root, entry, index, plugin_names, seen, t, fs, r) ==
    IF entry.t \in {"int", "NoneType"} \/ (entry.t = "list" /\ "name" \in entry.keys)
    THEN EntryOutcome(TRUE, r, plugin_names, seen)
    ELSE IF "name" \notin entry.keys
    THEN EntryOutcome(FALSE,
            add_error(r, "plugin_name_missing", "Plugin at index {} missing name field",
                      <<ToString(index)>>, MarketplacePath, NoLine),
            plugin_names, seen)
    ELSE LET name == entry.val["name"] IN
    IF name.t \in {"list", "dict"}
    THEN EntryOutcome(TRUE, r, plugin_names, seen)
    ELSE
      LET r1 == IF name \in plugin_names
                THEN add_error(r, "duplicate_plugin", "Duplicate plugin name: {}",
                               name.s, MarketplacePath, NoLine)
                ELSE r
      IN source_checks(root, entry, name,
                       IF "source" \in entry.keys THEN plugin_names \cup {name}
                       ELSE plugin_names,
                       seen, t, fs, r1)

\* _validate_plugin_entry(entry, index, plugin_names, result); seen is the
\* set of plugin.json files opened so far.
_validate_plugin_entry(root, entry, index, plugin_names, seen, t, fs, r) ==
    IF entry.t \in {"int", "NoneType"} \/ (entry.t = "list" /\ "name" \in entry.keys)
    THEN EntryOutcome(TRUE, r, plugin_names, seen)      \* TypeError
    ELSE IF "name" \notin entry.keys
    THEN EntryOutcome(FALSE,
            add_error(r, "plugin_name_missing", "Plugin at index {} missing name field",
                      <<ToString(index)>>, MarketplacePath, NoLine),
            plugin_names, seen)
    ELSE LET name == entry.val["name"] IN
    IF name.t \in {"list", "dict"}
    THEN EntryOutcome(TRUE, r, plugin_names, seen)      \* unhashable: TypeError
    ELSE
      LET r1 == IF name \in plugin_names
                THEN add_error(r, "duplicate_plugin", "Duplicate plugin name: {}",
                               name.s, MarketplacePath, NoLine)
                ELSE r
      IN source_checks(root, entry, name, plugin_names \cup {name}, seen, t, fs, r1)

RECURSIVE entries_loop(_, _, _, _, _, _)
\* for i, plugin_entry in enumerate(data['plugins']), from index i on;
\* acc is the outcome of the entries before it.
entries_loop(root, plugins, i, acc, t, fs) ==
    IF i >= Len(plugins) \/ acc.raised THEN acc
    ELSE entries_loop(root, plugins, i + 1,
            _validate_plugin_entry(root, plugins[i + 1], i, acc.plugin_names,
                                   acc.opened, t, fs, acc.result),
            t, fs)

\* validate returning at the first required field that is missing.
registry_fields_stops_at_missing(root, data, t, fs, r) ==
    LET absent == {field \in {"name", "owner", "plugins"} : field \notin data.keys}
        first == IF "name" \in absent THEN "name"
                 ELSE IF "owner" \in absent THEN "owner" ELSE "plugins"
    IN IF absent # {}
       THEN EntryOutcome(FALSE,
               add_error(r, "required_field", "Missing required field: {}",
                         <<first>>, MarketplacePath, NoLine), {}, {})
       ELSE IF ~isinstance(data.owner, "dict")
       THEN EntryOutcome(FALSE,
               add_error(r, "owner_type", "Owner must be object",
                         NoText, MarketplacePath, NoLine), {}, {})
       ELSE entries_loop(root, data.plugins.items, 0,
                         EntryOutcome(FALSE, r, {}, {}), t, fs)

\* Lines 326-364 of validate, on a parsed document data.
registry_fields(root, data, t, fs, r) ==
    LET missing(field, rr) ==
            IF field \notin data.keys
            THEN add_error(rr, "required_field", "Missing required field: {}",
                           <<field>>, MarketplacePath, NoLine)
            ELSE rr
        r1 == missing("plugins", missing("owner", missing("name", r)))
        r2 == IF "owner" \in data.keys /\ ~isinstance(data.owner, "dict")
              THEN add_error(r1, "owner_type", "Owner must be object",
                             NoText, MarketplacePath, NoLine)
              ELSE IF "owner" \in data.keys /\ "name" \notin data.owner.keys
              THEN add_error(r1, "owner_name", "Owner must have name field",
                             NoText, MarketplacePath, NoLine)
              ELSE r1
    IN IF "plugins" \notin data.keys THEN EntryOutcome(FALSE, r2, {}, {})
       ELSE IF ~isinstance(data.plugins, "list")
       THEN EntryOutcome(FALSE,
               add_error(r2, "plugins_type", "Plugins must be array, got {}",
                         <<data.plugins.t>>, MarketplacePath, NoLine), {}, {})
       ELSE entries_loop(root, data.plugins.items, 0,
                         EntryOutcome(FALSE, r2, {}, {}), t, fs)

\* validate with the syntax error's line number left out.
MarketplaceValidator_validate_drops_lineno(root, file, t, fs) ==
    LET r == ValidationResult("passed") IN
    CASE file.kind = "missing" ->
            EntryOutcome(FALSE,
                add_error(r, "file_exists", "marketplace.json not found",
                          NoText, MarketplacePath, NoLine), {}, {})
      [] file.kind = "malformed" ->
            EntryOutcome(FALSE,
                add_error(r, "json_syntax", "Invalid JSON: {}",
                          NoText, MarketplacePath, NoLine), {}, {})
      [] file.kind = "json" /\ file.top = "dict" ->
            registry_fields(root, file, t, fs, r)
      [] file.kind = "json" /\ file.top = "list" /\ file.keys = {} ->
            registry_fields(root, file, t, fs, r)
      [] OTHER -> EntryOutcome(TRUE, r, {}, {})

\* MarketplaceValidator(marketplace_root).validate()
MarketplaceValidator_validate(root, file, t, fs) ==
    LET r == ValidationResult("passed") IN
    CASE file.kind = "missing" ->
            EntryOutcome(FALSE,
                add_error(r, "file_exists", "marketplace.json not found",
                          NoText, MarketplacePath, NoLine), {}, {})
      [] file.kind = "malformed" ->
            EntryOutcome(FALSE,
                add_error(r, "json_syntax", "Invalid JSON: {}",
                          NoText, MarketplacePath, file.lineno), {}, {})
      [] file.kind = "json" /\ file.top = "dict" ->
            registry_fields(root, file, t, fs, r)
      [] file.kind = "json" /\ file.top = "list" /\ file.keys = {} ->
            registry_fields(root, file, t, fs, r)
      \* no except clause for a read error; an int or None document, or a
      \* list holding a key string, raises TypeError
      [] OTHER -> EntryOutcome(TRUE, r, {}, {})

----------------------------------------------------------------------------
(* SkillsValidator (validate.py 472-547).                                  *)

\* How a run of the inspector ends for subprocess.run: end is "exit0" (exit
\* status 0), "nonzero" (another exit status), "timeout" (TimeoutExpired),
\* "not_found" (FileNotFoundError) or "os_error" (another exception);
\* stdout and stderr are the captured streams.
Run(end, stdout, stderr) == [end |-> end, stdout |-> stdout, stderr |-> stderr]

\* validate_skill reporting a timeout as a warning.
validate_skill_warns_on_timeout(skill_path, has_md, outcome) ==
    LET r == ValidationResult("passed") IN
    IF ~has_md
    THEN add_error(r, "skill_md_missing", "SKILL.md file not found",
                   NoText, skill_path, NoLine)
    ELSE CASE outcome.end = "exit0" -> r
           [] outcome.end = "nonzero" ->
                add_error(r, "skills_ref_validation", "skills-ref validation failed: {} {}",
                          <<outcome.stdout, outcome.stderr>>, skill_path, NoLine)
           [] outcome.end = "timeout" ->
                add_warning(r, "skills_ref_timeout", "skills-ref validation timed out (30s)",
                            NoText, skill_path, NoLine)
           [] outcome.end = "not_found" ->
                add_error(r, "skills_ref_missing", "uvx not found",
                          NoText, skill_path, NoLine)
           [] OTHER ->
                add_error(r, "skills_ref_error", "Failed to run skills-ref: {}",
                          NoText, skill_path, NoLine)

\* validate_skill with the general handler ahead of the timeout's.
validate_skill_catches_all(skill_path, has_md, outcome) ==
    LET r == ValidationResult("passed") IN
    IF ~has_md
    THEN add_error(r, "skill_md_missing", "SKILL.md file not found",
                   NoText, skill_path, NoLine)
    ELSE CASE outcome.end = "exit0" -> r
           [] outcome.end = "nonzero" ->
                add_error(r, "skills_ref_validation", "skills-ref validation failed: {} {}",
                          <<outcome.stdout, outcome.stderr>>, skill_path, NoLine)
           [] outcome.end = "not_found" ->
                add_error(r, "skills_ref_missing", "uvx not found",
                          NoText, skill_path, NoLine)
           [] OTHER ->
                add_error(r, "skills_ref_error", "Failed to run skills-ref: {}",
                          NoText, skill_path, NoLine)

\* validate_skill(skill_path): has_md is whether SKILL.md exists, outcome
\* how subprocess.run ends.
validate_skill(skill_path, has_md, outcome) ==
    LET r == ValidationResult("passed") IN
    IF ~has_md
    THEN add_error(r, "skill_md_missing", "SKILL.md file not found",
                   NoText, skill_path, NoLine)
    ELSE CASE outcome.end = "exit0" -> r
           [] outcome.end = "nonzero" ->
                add_error(r, "skills_ref_validation", "skills-ref validation failed: {} {}",
                          <<outcome.stdout, outcome.stderr>>, skill_path, NoLine)
           [] outcome.end = "timeout" ->
                add_error(r, "skills_ref_timeout", "skills-ref validation timed out (30s)",
                          NoText, skill_path, NoLine)
           [] outcome.end = "not_found" ->
                add_error(r, "skills_ref_missing", "uvx not found",
                          NoText, skill_path, NoLine)
           [] OTHER ->
                add_error(r, "skills_ref_error", "Failed to run skills-ref: {}",
                          NoText, skill_path, NoLine)

\* Lines 507-512: the argument vector of the inspector run.
cmd(skill_path) ==
    <<"uvx", "--from",
      "git+https://github.com/agentskills/agentskills#subdirectory=skills-ref",
      "skills-ref", "validate", skill_path>>

\* The subprocess.run calls made once validate_skill(skill_path) has run:
\* none when SKILL.md is absent (lines 495-503), else the one of line 514.
subprocess_run(calls, skill_path, has_md) ==
    IF has_md THEN Append(calls, cmd(skill_path)) ELSE calls

\* discover_skills keeping every entry of the listing.
discover_skills_keeps_all(dirs) == [i \in 1..Len(dirs) |-> dirs[i].name]

\* discover_skills(): the names of the subdirectories holding SKILL.md, in
\* the order iterdir lists them; dirs is that listing.
discover_skills(dirs) ==
    LET keep(d) == d.has_md
        kept == SelectSeq(dirs, keep)
    IN [i \in 1..Len(kept) |-> kept[i].name]

----------------------------------------------------------------------------
(* main (validate.py 669-742).                                             *)

NoPlugin == "None"           \* the --plugin option when not given

PluginsDir == MarketRoot \o << <<"plugins">> >>

\* The directory of the plugin called name.
PluginDir(name) == PluginsDir \o << <<name>> >>

\* A dict that keeps insertion order: d[key] = value.
DictSet(d, key, value) ==
    IF \E i \in 1..Len(d) : d[i].key = key
    THEN [i \in 1..Len(d) |-> IF d[i].key = key THEN [key |-> key, value |-> value]
                               ELSE d[i]]
    ELSE Append(d, [key |-> key, value |-> value])

DictValues(d) == {d[i].value : i \in 1..Len(d)}

DictKeys(d) == {d[i].key : i \in 1..Len(d)}

\* No skills on disk.
NoSkills ==
    /\ listing = <<>>
    /\ inspector = <<>>
    /\ processes = {}
    /\ run_calls = <<>>

\* main is not running.
MainIdle ==
    /\ options = [plugin |-> NoPlugin, skip_skills |-> FALSE, output |-> "text"]
    /\ root_result = None
    /\ marketplace_result = None
    /\ plugin_results = <<>>
    /\ skill_results = <<>>
    /\ plugins_to_validate = <<>>
    /\ skills = <<>>
    /\ exit_code = -1

\* An exception leaves main: traceback, exit status 1.
MainRaises ==
    /\ pc' = "raised"
    /\ exit_code' = 1

\* Lines 686-691: the root manifest, when the file exists.
MainRoot ==
    /\ pc = "root"
    /\ LET out == PluginJsonValidator_validate(MarketRoot, tree, files) IN
       IF FileAt(files, MarketRoot).kind = "missing"
       THEN /\ pc' = "marketplace"
            /\ UNCHANGED <<root_result, exit_code>>
       ELSE IF out.raised
       THEN MainRaises /\ UNCHANGED root_result
       ELSE /\ root_result' = out.result
            /\ pc' = "marketplace"
            /\ UNCHANGED exit_code
    /\ UNCHANGED <<self, result, opened, disk, options, marketplace_result,
                   plugin_results, skill_results, plugins_to_validate, skills>>

\* The listing of plugins_dir: the plugin directories, in iterdir's order.
plugin_dirs == [i \in 1..Len(listing) |-> listing[i].plugin]

\* Lines 693-710: the registry, when the file exists, and the plugins to validate.
MainMarketplace ==
    /\ pc = "marketplace"
    /\ LET out == MarketplaceValidator_validate(MarketRoot, marketplace_json, tree, files)
           todo == IF options.plugin # NoPlugin THEN <<options.plugin>>
                   ELSE IF PluginsDir \in tree THEN plugin_dirs ELSE <<>>
       IN
       IF marketplace_json.kind = "missing"
       THEN /\ pc' = "plugins"
            /\ plugins_to_validate' = todo
            /\ UNCHANGED <<marketplace_result, exit_code>>
       ELSE IF out.raised
       THEN MainRaises /\ UNCHANGED <<marketplace_result, plugins_to_validate>>
       ELSE /\ marketplace_result' = out.result
            /\ pc' = "plugins"
            /\ plugins_to_validate' = todo
            /\ UNCHANGED exit_code
    /\ UNCHANGED <<self, result, opened, disk, options, root_result,
                   plugin_results, skill_results, skills>>

\* The entry of listing for the plugin called name.
SkillDirsOf(name) ==
    LET hit == {i \in 1..Len(listing) : listing[i].plugin = name}
    IN IF hit = {} THEN <<>> ELSE listing[CHOOSE i \in hit : TRUE].dirs

\* Lines 712-722: one plugin of the loop: its manifest, then its skills.
MainPlugin ==
    /\ pc = "plugins"
    /\ plugins_to_validate # <<>>
    /\ LET plugin_name == Head(plugins_to_validate)
           out == PluginJsonValidator_validate(PluginDir(plugin_name), tree, files)
           found == IF options.skip_skills THEN <<>>
                    ELSE discover_skills(SkillDirsOf(plugin_name))
       IN
       IF out.raised
       THEN MainRaises
            /\ UNCHANGED <<plugin_results, plugins_to_validate, skills>>
       ELSE /\ plugin_results' = DictSet(plugin_results, plugin_name, out.result)
            /\ skills' = found
            /\ IF found = <<>>
               THEN pc' = "plugins" /\ plugins_to_validate' = Tail(plugins_to_validate)
               ELSE pc' = "skills" /\ UNCHANGED plugins_to_validate
            /\ UNCHANGED exit_code
    /\ UNCHANGED <<self, result, opened, disk, options, root_result,
                   marketplace_result, skill_results>>

\* The skill loop leaving the plugin's other skills out once one has failed.
MainSkill_stops_at_failure ==
    /\ pc = "skills"
    /\ skills # <<>>
    /\ LET plugin_name == Head(plugins_to_validate)
           skill_name == plugin_name \o "/" \o Head(skills)
           r == validate_skill(skill_name, TRUE, inspector[skill_name])
           rest == IF r.status = "failed" THEN <<>> ELSE Tail(skills)
       IN /\ skill_results' = DictSet(skill_results, skill_name, r)
          /\ skills' = rest
          /\ IF rest = <<>>
             THEN pc' = "plugins" /\ plugins_to_validate' = Tail(plugins_to_validate)
             ELSE pc' = "skills" /\ UNCHANGED plugins_to_validate
    /\ run_calls' = subprocess_run(run_calls,
                                   Head(plugins_to_validate) \o "/" \o Head(skills), TRUE)
    /\ UNCHANGED <<self, result, opened, tree, files, marketplace_json, listing,
                   inspector, processes, options, root_result,
                   marketplace_result, plugin_results, exit_code>>

\* Lines 724-726: one skill of the plugin being validated.
MainSkill ==
    /\ pc = "skills"
    /\ skills # <<>>
    /\ LET plugin_name == Head(plugins_to_validate)
           skill_name == plugin_name \o "/" \o Head(skills)
       IN skill_results' =
              DictSet(skill_results, skill_name,
                      validate_skill(skill_name, TRUE, inspector[skill_name]))
    /\ skills' = Tail(skills)
    /\ IF Tail(skills) = <<>>
       THEN pc' = "plugins" /\ plugins_to_validate' = Tail(plugins_to_validate)
       ELSE pc' = "skills" /\ UNCHANGED plugins_to_validate
    /\ run_calls' = subprocess_run(run_calls,
                                   Head(plugins_to_validate) \o "/" \o Head(skills), TRUE)
    /\ UNCHANGED <<self, result, opened, tree, files, marketplace_json, listing,
                   inspector, processes, options, root_result,
                   marketplace_result, plugin_results, exit_code>>

has_errors_plugins_only ==
    \/ \E r \in DictValues(plugin_results) : r.status = "failed"
    \/ \E r \in DictValues(skill_results) : r.status = "failed"

has_errors_ignores_skills ==
    \/ root_result # None /\ root_result.status = "failed"
    \/ marketplace_result # None /\ marketplace_result.status = "failed"
    \/ \E r \in DictValues(plugin_results) : r.status = "failed"

\* Lines 735-740.
has_errors ==
    \/ root_result # None /\ root_result.status = "failed"
    \/ marketplace_result # None /\ marketplace_result.status = "failed"
    \/ \E r \in DictValues(plugin_results) : r.status = "failed"
    \/ \E r \in DictValues(skill_results) : r.status = "failed"

\* Lines 728-742: the report is printed and the process exits.
MainExit ==
    /\ pc = "plugins"
    /\ plugins_to_validate = <<>>
    /\ pc' = "exit"
    /\ exit_code' = IF has_errors THEN 1 ELSE 0
    /\ UNCHANGED <<self, result, opened, disk, options, root_result,
                   marketplace_result, plugin_results, skill_results,
                   plugins_to_validate, skills>>

----------------------------------------------------------------------------
(* The reports (validate.py 550-666).  A text report is the sequence of    *)
(* the lines printed; the JSON report is the object printed.               *)

\* One printed line: kind is the icon or label, text the title or message
\* template, about the values interpolated, file and line the location.
Line(kind, text, about, file, line) ==
    [kind |-> kind, text |-> text, about |-> about, file |-> file, line |-> line]

\* _print_result with the warnings printed ahead of the errors.
_print_result_warnings_first(title, r) ==
    <<Line(r.status, title, NoText, "", NoLine)>>
      \o [k \in 1..Len(r.warnings) |->
            Line("Warning", r.warnings[k].message, r.warnings[k].about,
                 r.warnings[k].file, r.warnings[k].line)]
      \o [k \in 1..Len(r.errors) |->
            Line("Error", r.errors[k].message, r.errors[k].about,
                 r.errors[k].file, r.errors[k].line)]
      \o [k \in 1..Len(r.info) |->
            Line("info", r.info[k].message, r.info[k].about, "", NoLine)]

\* _print_result(title, result)
_print_result(title, r) ==
    <<Line(r.status, title, NoText, "", NoLine)>>
      \o [k \in 1..Len(r.errors) |->
            Line("Error", r.errors[k].message, r.errors[k].about,
                 r.errors[k].file, r.errors[k].line)]
      \o [k \in 1..Len(r.warnings) |->
            Line("Warning", r.warnings[k].message, r.warnings[k].about,
                 r.warnings[k].file, r.warnings[k].line)]
      \o [k \in 1..Len(r.info) |->
            Line("info", r.info[k].message, r.info[k].about, "", NoLine)]

RECURSIVE Flatten(_)
Flatten(seqs) == IF seqs = <<>> THEN <<>> ELSE Head(seqs) \o Flatten(Tail(seqs))

\* The number of Results of the dict d whose status is in the set.
CountStatus(d, statuses) ==
    Cardinality({i \in 1..Len(d) : d[i].value.status \in statuses})

\* print_text_results(root_result, marketplace_result, plugin_results, skill_results)
print_text_results(rr, mr, pr, sr) ==
    <<Line("banner", "Validating Claude Plugins Marketplace...", NoText, "", NoLine)>>
      \o (IF rr # None THEN _print_result("Root Plugin", rr) ELSE <<>>)
      \o (IF mr # None THEN _print_result("Marketplace Registry", mr) ELSE <<>>)
      \o Flatten([i \in 1..Len(pr) |-> _print_result("Plugin: " \o pr[i].key, pr[i].value)])
      \o (IF sr # <<>>
          THEN <<Line("banner", "Skills Validation", NoText, "", NoLine)>>
                 \o [i \in 1..Len(sr) |->
                       Line(sr[i].value.status, sr[i].key, NoText, "", NoLine)]
          ELSE <<>>)
      \o <<Line("summary", "{} plugins passed", <<ToString(CountStatus(pr, {"passed"}))>>, "", NoLine)>>
      \o (IF CountStatus(pr, {"warning"}) # 0
          THEN <<Line("summary", "{} plugins with warnings",
                      <<ToString(CountStatus(pr, {"warning"}))>>, "", NoLine)>>
          ELSE <<>>)
      \o (IF CountStatus(pr, {"failed"}) # 0
          THEN <<Line("summary", "{} plugins failed",
                      <<ToString(CountStatus(pr, {"failed"}))>>, "", NoLine)>>
          ELSE <<>>)
      \o <<Line("summary", "{} skills validated", <<ToString(Len(sr))>>, "", NoLine)>>

\* One issue of the JSON report: check, message, file, line.
IssueDict(issue) ==
    [check |-> issue.check, message |-> issue.message, about |-> issue.about,
     file |-> issue.file, line |-> issue.line]

\* _result_to_dict(result)
_result_to_dict(r) ==
    [status |-> r.status,
     errors |-> [k \in 1..Len(r.errors) |-> IssueDict(r.errors[k])],
     warnings |-> [k \in 1..Len(r.warnings) |-> IssueDict(r.warnings[k])]]

\* JSON null in the place of a Result.
NullDict == [status |-> "null", errors |-> <<>>, warnings |-> <<>>]

\* print_json_results(root_result, marketplace_result, plugin_results, skill_results)
print_json_results(rr, mr, pr, sr) ==
    [root_plugin |-> IF rr # None THEN _result_to_dict(rr) ELSE NullDict,
     marketplace |-> IF mr # None THEN _result_to_dict(mr) ELSE NullDict,
     plugins |-> [i \in 1..Len(pr) |->
                    [key |-> pr[i].key, value |-> _result_to_dict(pr[i].value)]],
     skills |-> [i \in 1..Len(sr) |->
                   [key |-> sr[i].key, value |-> _result_to_dict(sr[i].value)]],
     summary |-> [total_plugins |-> Len(pr),
                  plugins_passed |-> CountStatus(pr, {"passed"}),
                  plugins_warnings |-> CountStatus(pr, {"warning"}),
                  plugins_failed |-> CountStatus(pr, {"failed"}),
                  total_skills |-> Len(sr),
                  skills_passed |-> CountStatus(sr, {"passed"}),
                  skills_failed |-> CountStatus(sr, {"warning", "failed"})]]

----------------------------------------------------------------------------
(* Specification SpecResult: one ValidationResult(status='passed') under   *)
(* arbitrary add_error / add_warning / add_info calls.                     *)

SampleChecks == {"check_a", "check_b"}
SampleLines == {NoLine, 1}
SampleFile == "plugin.json"

IssueCount(r) == Len(r.errors) + Len(r.warnings) + Len(r.info)

InitResult ==
    /\ pc = "result"
    /\ self = "ValidationResult"
    /\ result = ValidationResult("passed")
    /\ opened = {}
    /\ tree = {}
    /\ files = <<>>
    /\ marketplace_json = NoRegistry
    /\ NoSkills
    /\ MainIdle

AddErrorCall ==
    /\ pc = "result"
    /\ IssueCount(result) < MaxIssues
    /\ \E c \in SampleChecks, l \in SampleLines :
          result' = add_error(result, c, "m", NoText, SampleFile, l)
    /\ UNCHANGED <<pc, self, opened, disk, main_vars>>

AddWarningCall ==
    /\ pc = "result"
    /\ IssueCount(result) < MaxIssues
    /\ \E c \in SampleChecks, l \in SampleLines :
          result' = add_warning(result, c, "m", NoText, SampleFile, l)
    /\ UNCHANGED <<pc, self, opened, disk, main_vars>>

AddInfoCall ==
    /\ pc = "result"
    /\ IssueCount(result) < MaxIssues
    /\ \E c \in SampleChecks :
          result' = add_info(result, c, "m", NoText, SampleFile)
    /\ UNCHANGED <<pc, self, opened, disk, main_vars>>

NextResult == AddErrorCall \/ AddWarningCall \/ AddInfoCall

SpecResult == InitResult /\ [][NextResult]_vars

----------------------------------------------------------------------------
(* Claims about the ValidationResult model.                                *)

StatusRank(s) == CASE s = "passed" -> 0 [] s = "warning" -> 1 [] s = "failed" -> 2

\* C1: the status is 'failed' iff errors is non-empty; otherwise 'warning'
\* iff warnings is non-empty; otherwise 'passed'.
C1_StatusMatchesIssues ==
    /\ (result.status = "failed") <=> (result.errors # <<>>)
    /\ result.errors = <<>> =>
          ((result.status = "warning") <=> (result.warnings # <<>>))
    /\ (result.errors = <<>> /\ result.warnings = <<>>) => result.status = "passed"

\* A result holding an error after a warning and an info: every branch of C1.
C1_Witness ==
    /\ pc = "result"
    /\ Len(result.errors) = 1 /\ Len(result.warnings) = 1 /\ Len(result.info) = 1
    /\ result.status = "failed"

\* C2: over any add call the status never moves down in passed < warning <
\* failed; add_error leaves it 'failed', a 'failed' status stays 'failed',
\* add_warning turns 'passed' into 'warning' and keeps 'failed', add_info
\* keeps the status.
C2_StatusMonotonic ==
    [][ /\ StatusRank(result.status) <= StatusRank(result'.status)
        /\ (Len(result'.errors) > Len(result.errors)) => result'.status = "failed"
        /\ (result.status = "failed") => result'.status = "failed"
        /\ (Len(result'.warnings) > Len(result.warnings)) =>
              result'.status = (IF result.status = "passed" THEN "warning"
                                ELSE result.status)
        /\ (Len(result'.info) > Len(result.info)) => result'.status = result.status
      ]_vars

\* A 'failed' result that has since taken a warning and an info.
C2_Witness ==
    /\ pc = "result"
    /\ result.status = "failed"
    /\ Len(result.errors) = 1 /\ Len(result.warnings) = 1 /\ Len(result.info) = 1

\* The list new is old with one issue of the given severity added at the end.
Appended(old, new, severity) ==
    /\ Len(new) = Len(old) + 1
    /\ SubSeq(new, 1, Len(old)) = old
    /\ new[Len(new)].severity = severity

IsPrefixOf(old, new) == Len(old) <= Len(new) /\ SubSeq(new, 1, Len(old)) = old

\* C18: add_error appends one issue at the end of errors and leaves
\* warnings and info as they were; add_warning does so for warnings,
\* leaving errors and info; add_info for info, leaving errors, warnings and
\* the status; over every call each list extends its earlier value.
C18_AddOnlyAppends ==
    [][ /\ AddErrorCall =>
              /\ Appended(result.errors, result'.errors, "error")
              /\ result'.warnings = result.warnings /\ result'.info = result.info
        /\ AddWarningCall =>
              /\ Appended(result.warnings, result'.warnings, "warning")
              /\ result'.errors = result.errors /\ result'.info = result.info
        /\ AddInfoCall =>
              /\ Appended(result.info, result'.info, "info")
              /\ result'.errors = result.errors /\ result'.warnings = result.warnings
              /\ result'.status = result.status
        /\ IsPrefixOf(result.errors, result'.errors)
        /\ IsPrefixOf(result.warnings, result'.warnings)
        /\ IsPrefixOf(result.info, result'.info)
      ]_vars

\* Two info issues with different check codes added one after the other,
\* then an error.
C18_Witness ==
    /\ pc = "result"
    /\ Len(result.info) = 2 /\ Len(result.errors) = 1
    /\ result.info[1].check # result.info[2].check

----------------------------------------------------------------------------
(* The call PluginJsonValidator(plugin_path).validate() as one step.       *)

PluginValidate ==
    /\ pc = "call"
    /\ self = "PluginJsonValidator"
    /\ LET out == PluginJsonValidator_validate(PluginRoot, tree, files)
       IN /\ result' = (IF out.raised THEN None ELSE out.result)
          /\ pc' = (IF out.raised THEN "raised" ELSE "done")
    /\ opened' = IF plugin_json.kind = "missing" THEN opened
                 ELSE opened \cup {PluginRoot}
    /\ UNCHANGED <<self, disk, main_vars>>

\* A plugin directory with nothing else on disk, holding the manifest file f.
PluginAlone(f) ==
    /\ pc = "call"
    /\ self = "PluginJsonValidator"
    /\ result = None
    /\ opened = {}
    /\ tree = BareTree
    /\ files = (PluginRoot :> f)
    /\ marketplace_json = NoRegistry
    /\ NoSkills
    /\ MainIdle

MarketplaceValidate ==
    /\ pc = "call"
    /\ self = "MarketplaceValidator"
    /\ LET out == MarketplaceValidator_validate(MarketRoot, marketplace_json, tree, files)
       IN /\ result' = (IF out.raised THEN None ELSE out.result)
          /\ pc' = (IF out.raised THEN "raised" ELSE "done")
          /\ opened' = out.opened
    /\ UNCHANGED <<self, disk, main_vars>>

\* A registry root holding the registry file f, on the disk t, fs.
RegistryAt(f, t, fs) ==
    /\ pc = "call"
    /\ self = "MarketplaceValidator"
    /\ result = None
    /\ opened = {}
    /\ tree = t
    /\ files = fs
    /\ marketplace_json = f
    /\ NoSkills
    /\ MainIdle

\* The check codes of a list of issues, in order.
Checks(issues) == [i \in 1..Len(issues) |-> issues[i].check]

HasCheck(issues, check) == \E i \in 1..Len(issues) : issues[i].check = check

CountCheck(issues, check) ==
    Cardinality({i \in 1..Len(issues) : issues[i].check = check})

AllIssues(r) == r.errors \o r.warnings \o r.info


----------------------------------------------------------------------------
(* Specification SpecName: validate on a manifest holding only 'name'.     *)

NameAlphabet == {"a", "1", "-", "_", "A", "\n"}

NameValues ==
    {JStr(s) : s \in StringsUpTo(NameAlphabet, MaxNameLen)}
        \cup {JInt, JNone, JList(<<>>), JDict({})}

InitName == \E v \in NameValues : PluginAlone(Manifest("name" :> v))

SpecName == InitName /\ [][PluginValidate]_vars

\* The name form of the claim, stated on the whole string: a lowercase
\* letter first, only lowercase letters, digits and hyphens, and every
\* hyphen directly followed by a letter or digit.
KebabForm(s) ==
    /\ Len(s) >= 1
    /\ s[1] \in LowerChars
    /\ \A i \in 1..Len(s) : s[i] \in LowerChars \cup DigitChars \cup {"-"}
    /\ \A i \in 1..Len(s) :
          s[i] = "-" => (i < Len(s) /\ s[i + 1] \in LowerChars \cup DigitChars)

\* C6: for a string name, 'name_format' is recorded iff the string is not
\* of the kebab form (nothing else in the string); a non-string name
\* records 'name_type' and never 'name_format'.
C6_NameFormatIffNotKebab ==
    (pc = "done" /\ "name" \in plugin_json.keys) =>
        LET name == plugin_json.val["name"] IN
        IF isinstance(name, "str")
        THEN /\ HasCheck(result.errors, "name_format") <=> ~KebabForm(name.s)
             /\ ~HasCheck(result.errors, "name_type")
        ELSE /\ HasCheck(result.errors, "name_type")
             /\ ~HasCheck(result.errors, "name_format")

----------------------------------------------------------------------------
(* Specification SpecVersion: validate on a manifest with a valid name and *)
(* a 'version'.  Version strings are built from tokens, so that the long   *)
(* well-formed shapes are among them.                                      *)

VersionTokens ==
    { <<"1">>, <<".">>, <<"-">>, <<"+">>, <<"a">>, <<"\n">>,
      <<"1", ".", "2", ".", "3">> }

RECURSIVE Concat(_)
Concat(seqs) == IF seqs = <<>> THEN <<>> ELSE Head(seqs) \o Concat(Tail(seqs))

VersionValues ==
    {JStr(Concat(ts)) : ts \in StringsUpTo(VersionTokens, MaxVersionTokens)}
        \cup {JInt, JNone, JList(<<>>)}

InitVersion ==
    \/ \E v \in VersionValues :
          PluginAlone(Manifest(("name" :> JStr(<<"a">>)) @@ ("version" :> v)))
    \/ PluginAlone(Manifest("name" :> JStr(<<"a">>)))

SpecVersion == InitVersion /\ [][PluginValidate]_vars

IsDigits(s, i, j) == i <= j /\ \A k \in i..j : s[k] \in DigitChars

IsSuffixText(s, i, j) == i <= j /\ \A k \in i..j : s[k] \in SemverSuffixChars

\* s[1..e] is MAJOR.MINOR.PATCH: three digit runs separated by dots.
SemverCore(s, e) ==
    \E d1, d2 \in 1..e :
        /\ d1 < d2 /\ s[d1] = "." /\ s[d2] = "."
        /\ IsDigits(s, 1, d1 - 1) /\ IsDigits(s, d1 + 1, d2 - 1)
        /\ IsDigits(s, d2 + 1, e)

\* The version form of the claim, stated on the whole string.
SemverForm(s) ==
    \E e \in 1..Len(s) :
        /\ SemverCore(s, e)
        /\ \/ e = Len(s)
           \/ e < Len(s) /\ s[e + 1] \in {"-", "+"} /\ IsSuffixText(s, e + 2, Len(s))
           \/ /\ e < Len(s) /\ s[e + 1] = "-"
              /\ \E b \in (e + 3)..Len(s) :
                    s[b] = "+" /\ IsSuffixText(s, e + 2, b - 1)
                               /\ IsSuffixText(s, b + 1, Len(s))

\* C7: for a string version, 'version_format' is recorded iff the string is
\* not MAJOR.MINOR.PATCH with optional '-' and '+' suffixes; a non-string
\* version records 'version_type' and never 'version_format'; an absent
\* version records nothing.
C7_VersionFormatIffNotSemver ==
    pc = "done" =>
        IF "version" \notin plugin_json.keys THEN AllIssues(result) = <<>>
        ELSE LET version == plugin_json.val["version"] IN
             IF isinstance(version, "str")
             THEN /\ HasCheck(result.errors, "version_format") <=> ~SemverForm(version.s)
                  /\ ~HasCheck(result.errors, "version_type")
             ELSE /\ HasCheck(result.errors, "version_type")
                  /\ ~HasCheck(result.errors, "version_format")

----------------------------------------------------------------------------
(* Specification SpecManifest: either validator on a document that is      *)
(* missing, malformed, unreadable, or parsed with a sample of field values.*)

SampleField ==
    [ name       |-> {JInt, JStr(<<"a">>), JStr(<<"A">>)},
      version    |-> {JInt, JStr(<<"1">>)},
      author     |-> {JStr(<<"a">>), JDict({}), JDict({"name"})},
      license    |-> {JStr(<<"X">>)},
      repository |-> {JStr(<<"x">>)},
      keywords   |-> {JList(<<JStr(<<"k">>), JInt>>)},
      commands   |-> {JInt, JStr(<<".","/","c">>), JStr(<<"/","c">>)},
      agents     |-> {JStr(<<"c">>)},
      skills     |-> {JList(<<JStr(<<".","/","c">>)>>)} ]

Absent == [t |-> "absent", s |-> <<>>, items |-> <<>>, keys |-> {}]

\* The manifest object whose fields are the values of v other than Absent.
ManifestOf(v) ==
    JsonFile("dict", {k \in ManifestKeys : v[k] # Absent},
             [k \in ManifestKeys |-> IF v[k] = Absent THEN JNone ELSE v[k]])

Optional(values) == values \cup {Absent}

\* Every manifest object whose present fields take sample values.
SampleManifests ==
    { ManifestOf([name |-> n, version |-> v, author |-> a, license |-> l,
                  repository |-> r, keywords |-> k, commands |-> c,
                  agents |-> g, skills |-> s]) :
        n \in Optional(SampleField.name), v \in Optional(SampleField.version),
        a \in Optional(SampleField.author), l \in Optional(SampleField.license),
        r \in Optional(SampleField.repository), k \in Optional(SampleField.keywords),
        c \in Optional(SampleField.commands), g \in Optional(SampleField.agents),
        s \in Optional(SampleField.skills) }

BrokenFiles == {NoFile, UnreadableFile} \cup {MalformedFile(l) : l \in 1..MaxLineno}

ManifestFiles ==
    SampleManifests \cup BrokenFiles
        \cup {JsonFile("list", {}, NoFields), JsonFile("int", {}, NoFields)}

SampleTrees == {BareTree, BareTree \cup {Append(PluginRoot, <<"c">>)}}

BrokenRegistries ==
    {NoRegistry, [NoRegistry EXCEPT !.kind = "unreadable"]}
        \cup {[NoRegistry EXCEPT !.kind = "malformed", !.lineno = l] : l \in 1..MaxLineno}

SampleRegistries ==
    BrokenRegistries
        \cup { RegistryFile("dict", K, o, p) :
                 K \in SUBSET {"name", "owner", "plugins"},
                 o \in {JInt, JDict({}), JDict({"name"})},
                 p \in {JInt, JList(<<>>), JList(<<Entry(<<>>)>>)} }
        \cup {RegistryFile("list", {}, JNone, JNone), RegistryFile("int", {}, JNone, JNone)}

InitManifest ==
    \/ \E f \in ManifestFiles, t \in SampleTrees :
          /\ pc = "call" /\ self = "PluginJsonValidator"
          /\ result = None /\ opened = {}
          /\ tree = t /\ files = (PluginRoot :> f)
          /\ marketplace_json = NoRegistry
          /\ NoSkills /\ MainIdle
    \/ \E f \in SampleRegistries :
          RegistryAt(f, {<<>>, MarketRoot}, <<>>)

NextManifest == PluginValidate \/ MarketplaceValidate

SpecManifest == InitManifest /\ [][NextManifest]_vars

\* The document the validator under analysis reads.
document == IF self = "PluginJsonValidator" THEN plugin_json ELSE marketplace_json

\* C4: on a missing document validate returns exactly one issue, the error
\* 'file_exists'; on a document that is not valid JSON exactly one issue,
\* the error 'json_syntax' carrying the parser's line number; no other
\* error, warning or info is recorded in either case.
C4_MissingOrMalformedDocument ==
    (pc # "call" /\ document.kind \in {"missing", "malformed"}) =>
          /\ pc = "done"
          /\ Len(result.errors) = 1
          /\ result.warnings = <<>> /\ result.info = <<>>
          /\ result.errors[1].severity = "error"
          /\ document.kind = "missing" =>
                /\ result.errors[1].check = "file_exists"
                /\ result.errors[1].line = NoLine
          /\ document.kind = "malformed" =>
                /\ result.errors[1].check = "json_syntax"
                /\ result.errors[1].line = document.lineno

\* The registry validator has returned from a registry that is not valid
\* JSON, with the error at line 2.
C4_Witness ==
    /\ pc = "done"
    /\ self = "MarketplaceValidator"
    /\ marketplace_json.kind = "malformed" /\ marketplace_json.lineno = 2
    /\ HasCheck(result.errors, "json_syntax")

\* The check codes that the check of one manifest field can record.
FieldChecks(k) ==
    IF k = "name" THEN {"required_field", "name_type", "name_format"}
    ELSE IF k = "version" THEN {"version_type", "version_format"}
    ELSE IF k = "author" THEN {"author_format", "author_fix", "author_name", "author_type"}
    ELSE IF k = "license" THEN {"license_type", "license_spdx"}
    ELSE IF k = "repository" THEN {"repository_type", "repository_url"}
    ELSE IF k = "keywords" THEN {"keywords_type", "keyword_type"}
    ELSE {k \o "_type", k \o "_absolute", k \o "_prefix", k \o "_exists"}

\* The issues of r that belong to field k, in order, by severity.
FieldIssues(r, k) ==
    LET of_k(i) == i.check \in FieldChecks(k)
    IN <<SelectSeq(r.errors, of_k), SelectSeq(r.warnings, of_k), SelectSeq(r.info, of_k)>>

\* The manifest that holds field k of file f and no other field.
OnlyField(f, k) ==
    [f EXCEPT !.keys = f.keys \cap {k},
              !.val = [j \in ManifestKeys |-> IF j = k THEN f.val[j] ELSE JNone]]

\* C5: a manifest object without 'name' records exactly one
\* 'required_field' error, and the issues recorded for each field are the
\* ones that field records in a manifest holding nothing else: the other
\* fields' errors neither suppress nor add any.
C5_FieldChecksIndependent ==
    (pc = "done" /\ self = "PluginJsonValidator"
        /\ plugin_json.kind = "json" /\ plugin_json.top = "dict") =>
        /\ "name" \notin plugin_json.keys =>
              CountCheck(AllIssues(result), "required_field") = 1
        /\ \A k \in ManifestKeys :
              FieldIssues(result, k) =
                  FieldIssues(
                      PluginJsonValidator_validate(
                          PluginRoot, tree, PluginRoot :> OnlyField(plugin_json, k)).result,
                      k)

\* A manifest without 'name' whose version, author, license, repository,
\* keywords and commands checks each recorded their own issue.
C5_Witness ==
    /\ pc = "done" /\ self = "PluginJsonValidator"
    /\ plugin_json.kind = "json" /\ plugin_json.top = "dict"
    /\ "name" \notin plugin_json.keys
    /\ CountCheck(result.errors, "required_field") = 1
    /\ HasCheck(result.errors, "version_format")
    /\ HasCheck(result.errors, "author_format")
    /\ HasCheck(result.warnings, "license_spdx")
    /\ HasCheck(result.warnings, "repository_url")
    /\ HasCheck(result.errors, "keyword_type")
    /\ HasCheck(result.errors, "commands_absolute")
    /\ HasCheck(result.warnings, "agents_prefix")

TopFields == {"name", "owner", "plugins"}

TopChecks == {"required_field", "owner_type", "owner_name", "plugins_type"}

ParsedRegistry ==
    /\ self = "MarketplaceValidator"
    /\ marketplace_json.kind = "json" /\ marketplace_json.top = "dict"

\* C25: on a parsed registry object each missing top field records its own
\* 'required_field' error; an 'owner' that is not an object records
\* 'owner_type', an 'owner' object without 'name' records 'owner_name'; a
\* 'plugins' value that is not a sequence records 'plugins_type' and no
\* per-entry issue.
C25_TopFieldChecks ==
    (pc # "call" /\ ParsedRegistry) =>
        LET data == marketplace_json
            count(check) == CountCheck(result.errors, check)
            owner_is_dict == isinstance(data.owner, "dict")
        IN
        /\ pc = "done"
        /\ \A field \in TopFields :
              Cardinality({i \in 1..Len(result.errors) :
                              /\ result.errors[i].check = "required_field"
                              /\ result.errors[i].about = <<field>>})
                  = (IF field \in data.keys THEN 0 ELSE 1)
        /\ count("required_field") = Cardinality(TopFields \ data.keys)
        /\ count("owner_type") =
              (IF "owner" \in data.keys /\ ~owner_is_dict THEN 1 ELSE 0)
        /\ count("owner_name") =
              (IF "owner" \in data.keys /\ owner_is_dict /\ "name" \notin data.owner.keys
               THEN 1 ELSE 0)
        /\ count("plugins_type") =
              (IF "plugins" \in data.keys /\ ~isinstance(data.plugins, "list")
               THEN 1 ELSE 0)
        /\ ("plugins" \in data.keys /\ ~isinstance(data.plugins, "list")) =>
              /\ \A i \in 1..Len(result.errors) : result.errors[i].check \in TopChecks
              /\ result.warnings = <<>> /\ result.info = <<>>

\* A registry object without 'name' whose owner and plugins are numbers.
C25_Witness ==
    /\ pc = "done" /\ ParsedRegistry
    /\ marketplace_json.keys = {"owner", "plugins"}
    /\ ~isinstance(marketplace_json.owner, "dict")
    /\ ~isinstance(marketplace_json.plugins, "list")
    /\ Checks(result.errors) = <<"required_field", "owner_type", "plugins_type">>

----------------------------------------------------------------------------
(* Specification SpecPaths: validate on a manifest with a valid name and   *)
(* one path-bearing field, over every short path string and a family of    *)
(* directory trees with plain and dot-named directories.                   *)

PathAlphabet == {".", "/", "c"}

PathStrings == StringsUpTo(PathAlphabet, MaxPathLen)

PathValues ==
    {JStr(s) : s \in PathStrings} \cup {JList(<<JStr(s)>>) : s \in PathStrings}
        \cup {JInt, JList(<<>>), JList(<<JInt>>)}

Dir_c == <<"c">>
Dir_dot_c == <<".", "c">>

\* Directories that may exist: p/c, p/c/c, p/.c, p/.c/c and the sibling /c.
PathTrees ==
    { BareTree \cup a \cup b \cup c :
        a \in { {}, {PluginRoot \o <<Dir_c>>},
                {PluginRoot \o <<Dir_c>>, PluginRoot \o <<Dir_c, Dir_c>>} },
        b \in { {}, {PluginRoot \o <<Dir_dot_c>>},
                {PluginRoot \o <<Dir_dot_c>>, PluginRoot \o <<Dir_dot_c, Dir_c>>} },
        c \in { {}, {<<Dir_c>>} } }

PathFields == {"commands", "agents", "skills"}

InitPaths ==
    \E field \in PathFields, v \in PathValues, t \in PathTrees :
        /\ pc = "call" /\ self = "PluginJsonValidator"
        /\ result = None /\ opened = {}
        /\ tree = t
        /\ files = (PluginRoot :> Manifest(("name" :> JStr(<<"a">>)) @@ (field :> v)))
        /\ marketplace_json = NoRegistry
        /\ NoSkills /\ MainIdle

SpecPaths == InitPaths /\ [][PluginValidate]_vars

IsPrefix(a, b) == Len(a) <= Len(b) /\ SubSeq(b, 1, Len(a)) = a

\* The path string s, taken relative to base, names an existing directory
\* inside base.
ExistsUnder(t, base, s) ==
    /\ ~StartsWith(s, <<"/">>)
    /\ exists(t, PathJoin(base, s))
    /\ IsPrefix(base, PathResolve(<<>>, PathJoin(base, s)))

\* The path-bearing field of the manifest and its single path string, when
\* the field holds a bare string or a one-element list.
TheField == CHOOSE k \in PathFields : k \in plugin_json.keys

HasOnePath ==
    /\ \E k \in PathFields : k \in plugin_json.keys
    /\ LET v == plugin_json.val[TheField]
       IN \/ isinstance(v, "str")
          \/ isinstance(v, "list") /\ Len(v.items) = 1 /\ isinstance(v.items[1], "str")

ThePath ==
    LET v == plugin_json.val[TheField]
    IN IF isinstance(v, "str") THEN v.s ELSE v.items[1].s

\* C8: a path value beginning with '/' records the '<field>_absolute'
\* error; a relative path value that does not begin with './' and exists
\* under the plugin root records exactly one issue, the '<field>_prefix'
\* warning, and no error, so the manifest's status is 'warning'.
C8_AbsoluteErrorPrefixWarningOnly ==
    (pc = "done" /\ HasOnePath) =>
        /\ StartsWith(ThePath, <<"/">>) =>
              HasCheck(result.errors, TheField \o "_absolute")
        /\ (~StartsWith(ThePath, <<".", "/">>) /\ ExistsUnder(tree, PluginRoot, ThePath)) =>
              /\ result.errors = <<>> /\ result.info = <<>>
              /\ Len(result.warnings) = 1
              /\ result.warnings[1].check = TheField \o "_prefix"
              /\ result.status = "warning"

\* The location the path string s names: s with one leading "./" removed,
\* taken from the plugin root.
NamedLocation(s) == PathJoin(PluginRoot, removeprefix(s, <<".", "/">>))

\* C20: for a string path value p of a path-bearing field, the
\* '<field>_exists' error is recorded if and only if p with one leading './'
\* removed does not exist under the plugin root.
C20_ExistsIffMissing ==
    (pc = "done" /\ HasOnePath) =>
        (HasCheck(result.errors, TheField \o "_exists")
            <=> ~exists(tree, NamedLocation(ThePath)))

\* The path string s with one leading "./" removed, always taken below the
\* plugin root (a leading '/' does not leave the plugin root).
StrippedUnderRoot(s) == PluginRoot \o PathParts(removeprefix(s, <<".", "/">>), <<>>)

\* The absolute-path error is recorded exactly for the values that begin
\* with '/', whatever the existence check finds.
AbsoluteIffLeadingSlash ==
    (pc = "done" /\ HasOnePath) =>
        (HasCheck(result.errors, TheField \o "_absolute")
            <=> StartsWith(ThePath, <<"/">>))

\* C21: for one path value, '<field>_absolute' is recorded iff the value
\* begins with '/', and '<field>_exists' is recorded iff the stripped value
\* is absent under the plugin root; neither check short-circuits the other,
\* so both are recorded when both conditions hold.
C21_AbsoluteAndExistsIndependent ==
    (pc = "done" /\ HasOnePath) =>
        /\ HasCheck(result.errors, TheField \o "_absolute")
              <=> StartsWith(ThePath, <<"/">>)
        /\ HasCheck(result.errors, TheField \o "_exists")
              <=> ~exists(tree, StrippedUnderRoot(ThePath))

\* The Result of validate on the same plugin when the path-bearing field
\* holds v instead.
ResultWith(v) ==
    PluginJsonValidator_validate(PluginRoot, tree,
        (PluginRoot :> Manifest(("name" :> JStr(<<"a">>)) @@ (TheField :> v)))).result

FieldValue == plugin_json.val[TheField]

HasPathField == \E k \in PathFields : k \in plugin_json.keys

\* C22: a manifest holding the bare string s in a path-bearing field yields
\* exactly the issues of the manifest holding the one-element sequence [s];
\* a value that is neither a string nor a sequence records exactly one
\* '<field>_type' error and no other issue.
C22_BareStringAsOneElementList ==
    (pc = "done" /\ HasPathField) =>
        /\ isinstance(FieldValue, "str") =>
              result = ResultWith(JList(<<FieldValue>>))
        /\ (~isinstance(FieldValue, "str") /\ ~isinstance(FieldValue, "list")) =>
              /\ Len(result.errors) = 1
              /\ result.errors[1].check = TheField \o "_type"
              /\ result.warnings = <<>> /\ result.info = <<>>

C22_Witness ==
    /\ pc = "done" /\ HasPathField
    /\ isinstance(FieldValue, "str")
    /\ Len(FieldValue.s) > 1
    /\ HasCheck(result.errors, TheField \o "_exists")
    /\ result = ResultWith(JList(<<FieldValue>>))

----------------------------------------------------------------------------
(* Specification SpecRegistry: the registry validator on a well-formed     *)
(* registry object with up to MaxEntries entries.  Plugin a has a manifest *)
(* named a; directory x, when it exists, has none.                         *)

Str_a == JStr(<<"a">>)
Str_b == JStr(<<"b">>)
Source_a == JStr(<<".", "/", "a">>)
Source_x == JStr(<<".", "/", "x">>)

Dir_a == MarketRoot \o << <<"a">> >>
Dir_x == MarketRoot \o << <<"x">> >>

\* The entry with the given fields, a field of value Absent left out.
EntryOf(v) ==
    [t |-> "dict", keys |-> {k \in EntryKeys : v[k] # Absent},
     val |-> [k \in EntryKeys |-> IF v[k] = Absent THEN JNone ELSE v[k]]]

RegistryEntries ==
    { EntryOf([name |-> n, source |-> src, version |-> Absent, author |-> Absent]) :
        n \in {Absent, Str_a, Str_b},
        src \in {Absent, JInt, Source_a, Source_x} }
      \cup {ScalarEntry("int")}

Registry(entries) ==
    RegistryFile("dict", {"name", "owner", "plugins"}, JDict({"name"}), JList(entries))

Manifest_a == Manifest(("name" :> Str_a) @@ ("version" :> JStr(<<"1">>)))

InitRegistry ==
    \E entries \in StringsUpTo(RegistryEntries, MaxEntries),
       t \in { {<<>>, MarketRoot, Dir_a}, {<<>>, MarketRoot, Dir_a, Dir_x} } :
        RegistryAt(Registry(entries), t, Dir_a :> Manifest_a)

SpecRegistry == InitRegistry /\ [][MarketplaceValidate]_vars

entries == marketplace_json.plugins.items

HasName(e) == e.t = "dict" /\ "name" \in e.keys

\* Entry i carries a name that an earlier entry in document order carries.
RepeatsEarlierName(i) ==
    /\ HasName(entries[i])
    /\ \E j \in 1..(i - 1) :
          HasName(entries[j]) /\ entries[j].val["name"] = entries[i].val["name"]

\* The issues of the given check code whose message names the string n.
CountCheckAbout(issues, check, n) ==
    Cardinality({i \in 1..Len(issues) : issues[i].check = check /\ issues[i].about = n})

\* C9: when validate returns, 'duplicate_plugin' is recorded once for each
\* entry that repeats the name of an earlier entry and never otherwise (k
\* entries sharing a name record k-1), whether or not the earlier entries
\* were duplicates themselves or failed their source checks; and every
\* named entry, duplicate or not, goes through the source checks and the
\* cross-reference with the manifest.
C9_DuplicateOncePerRepeat ==
    pc = "done" =>
        /\ \A n \in {Str_a, Str_b} :
              CountCheckAbout(result.errors, "duplicate_plugin", n.s) =
                  Cardinality({i \in 1..Len(entries) :
                                  RepeatsEarlierName(i) /\ entries[i].val["name"] = n})
        /\ CountCheck(result.errors, "duplicate_plugin") =
              Cardinality({i \in 1..Len(entries) : RepeatsEarlierName(i)})
        /\ CountCheck(result.errors, "plugin_source_missing") =
              Cardinality({i \in 1..Len(entries) :
                              HasName(entries[i]) /\ "source" \notin entries[i].keys})
        /\ CountCheck(result.errors, "source_type") =
              Cardinality({i \in 1..Len(entries) :
                              HasName(entries[i]) /\ "source" \in entries[i].keys
                                  /\ entries[i].val["source"] = JInt})
        /\ CountCheck(result.errors, "name_mismatch") =
              Cardinality({i \in 1..Len(entries) :
                              HasName(entries[i]) /\ "source" \in entries[i].keys
                                  /\ entries[i].val["source"] = Source_a
                                  /\ entries[i].val["name"] # Str_a})

\* Three entries named b: the first has no source, the other two point at
\* plugin a; two 'duplicate_plugin' errors and two 'name_mismatch' errors.
C9_Witness ==
    /\ pc = "done"
    /\ Len(entries) = 3
    /\ \A i \in 1..3 : HasName(entries[i]) /\ entries[i].val["name"] = Str_b
    /\ "source" \notin entries[1].keys
    /\ CountCheck(result.errors, "duplicate_plugin") = 2
    /\ CountCheck(result.errors, "name_mismatch") = 2

----------------------------------------------------------------------------
(* Specification SpecEntry: the registry validator on a registry with one  *)
(* entry.  Either the source string and the directories vary (every short  *)
(* string over ".", "/", "a"), or the entry's and the manifest's fields.   *)

SourceAlphabet == {".", "/", "a"}

SourceValues ==
    {JStr(s) : s \in StringsUpTo(SourceAlphabet, MaxSourceLen)} \cup {Absent, JInt}

Dir_dot_a == MarketRoot \o << <<".", "a">> >>
Dir_sibling_a == << <<"a">> >>

Manifest_b == Manifest(("name" :> Str_b) @@ ("version" :> JStr(<<"1">>)))

\* Any of the directories m/a, m/.a and /a may exist, each with or without
\* a manifest.
EntryDisks ==
    { [tree |-> {<<>>, MarketRoot} \cup D, files |-> [d \in M |-> Manifest_b]] :
        D \in SUBSET {Dir_a, Dir_dot_a, Dir_sibling_a}, M \in SUBSET {Dir_a, Dir_dot_a, Dir_sibling_a} }

ManifestContents ==
    { MalformedFile(1), UnreadableFile, JsonFile("list", {}, NoFields) }
      \cup { ManifestOf([k \in ManifestKeys |->
                           IF k = "name" THEN n ELSE IF k = "version" THEN v ELSE Absent]) :
               n \in {Absent, Str_a, Str_b},
               v \in {Absent, JStr(<<"1">>), JStr(<<"2">>)} }

InitEntry ==
    \/ \E n \in {Absent, Str_a}, src \in SourceValues, d \in EntryDisks :
          /\ DOMAIN d.files \subseteq d.tree
          /\ RegistryAt(
                Registry(<<EntryOf([name |-> n, source |-> src,
                                    version |-> JStr(<<"2">>), author |-> Str_a])>>),
                d.tree, d.files)
    \/ \E v \in {Absent, JStr(<<"1">>), JStr(<<"2">>)},
          a \in {Absent, Str_a, JDict({"name"})},
          f \in ManifestContents :
          RegistryAt(
              Registry(<<EntryOf([name |-> Str_a, source |-> Source_a,
                                  version |-> v, author |-> a])>>),
              {<<>>, MarketRoot, Dir_a}, Dir_a :> f)

SpecEntry == InitEntry /\ [][MarketplaceValidate]_vars

entry == entries[1]

SkipChecks == {"plugin_name_missing", "plugin_source_missing", "source_type",
               "source_path_missing", "plugin_json_missing"}

CrossReferenceChecks == {"name_mismatch", "version_mismatch", "author_format_marketplace"}

\* The skip chain of one entry: at most one skip error, and after it no
\* manifest is opened and no cross-reference issue is recorded.
SkipChainStrict ==
    /\ Cardinality({i \in 1..Len(result.errors) : result.errors[i].check \in SkipChecks}) <= 1
    /\ (\E c \in SkipChecks : HasCheck(result.errors, c)) =>
          /\ opened = {}
          /\ \A c \in CrossReferenceChecks \cup {"plugin_json_read"} :
                ~HasCheck(AllIssues(result), c)

\* The entry's source is a relative path string and no directory exists at
\* that path under the registry root.
SourcePathMissing ==
    /\ "name" \in entry.keys /\ "source" \in entry.keys
    /\ isinstance(entry.val["source"], "str")
    /\ ~StartsWith(entry.val["source"].s, <<"/">>)
    /\ ~exists(tree, PathJoin(MarketRoot, entry.val["source"].s))

\* C10: an entry records at most one of the five skip errors, and once one
\* is recorded its manifest is never opened and no 'name_mismatch',
\* 'version_mismatch' or 'author_format_marketplace' is recorded; an entry
\* whose source path does not exist records 'source_path_missing' and no
\* manifest is read.
C10_SkipChainStrict ==
    pc = "done" =>
        /\ SkipChainStrict
        /\ SourcePathMissing =>
              (HasCheck(result.errors, "source_path_missing") /\ opened = {})

\* The entry has a name and a source string, written so that the strip in
\* line 414 removes one "./" and nothing else, that resolves to an existing
\* directory holding a manifest file.
SourceHoldsManifest ==
    /\ "name" \in entry.keys /\ "source" \in entry.keys
    /\ isinstance(entry.val["source"], "str")
    /\ LET s == entry.val["source"].s
           at == PathJoin(MarketRoot, removeprefix(s, <<".", "/">>))
       IN /\ lstrip(s, {".", "/"}) = removeprefix(s, <<".", "/">>)
          /\ exists(tree, at)
          /\ FileAt(files, PathResolve(<<>>, at)).kind # "missing"

BareStringAuthor ==
    "author" \in entry.keys /\ isinstance(entry.val["author"], "str")

\* The manifest the entry points at was loaded as a JSON object.
ManifestLoaded ==
    \E d \in opened : FileAt(files, d).kind = "json" /\ FileAt(files, d).top = "dict"

\* With the manifest loaded as an object, a bare string author records the
\* one 'author_format_marketplace' error whatever the mismatches.
AuthorFormatWhenLoaded ==
    (pc = "done" /\ SourceHoldsManifest /\ BareStringAuthor /\ ManifestLoaded) =>
        CountCheck(result.errors, "author_format_marketplace") = 1

\* C26: an entry with a name, a source string resolving to an existing
\* directory that holds a manifest file, and a bare string 'author' records
\* exactly one 'author_format_marketplace' error, whatever the content of
\* the manifest and whatever mismatch was recorded.
C26_AuthorFormatMarketplace ==
    (pc = "done" /\ SourceHoldsManifest /\ BareStringAuthor) =>
        CountCheck(result.errors, "author_format_marketplace") = 1

----------------------------------------------------------------------------
(* Specification SpecCross: the registry validator on up to                *)
(* MaxCrossEntries entries that all point at plugin a, whose manifest is   *)
(* an object; the names and versions of the entries and of the manifest    *)
(* vary.                                                                   *)

MaxCrossEntries == 2

CrossVersions == {Absent, JStr(<<"1">>), JStr(<<"2">>), JInt}

CrossEntries ==
    { EntryOf([name |-> n, source |-> Source_a, version |-> v, author |-> a]) :
        n \in {Str_a, Str_b}, v \in CrossVersions, a \in {Absent, Str_a} }

CrossManifests ==
    { ManifestOf([k \in ManifestKeys |->
                    IF k = "name" THEN n ELSE IF k = "version" THEN v ELSE Absent]) :
        n \in {Absent, Str_a, Str_b}, v \in CrossVersions }

InitCross ==
    \E es \in StringsUpTo(CrossEntries, MaxCrossEntries), f \in CrossManifests :
        RegistryAt(Registry(es), {<<>>, MarketRoot, Dir_a}, Dir_a :> f)

SpecCross == InitCross /\ [][MarketplaceValidate]_vars

\* The manifest that the entries point at.
manifest_a == FileAt(files, Dir_a)

\* Entry e and the manifest carry different names (a manifest without a
\* name carries none, which differs from every name).
NamesDiffer(e) ==
    "name" \notin manifest_a.keys \/ manifest_a.val["name"] # e.val["name"]

\* Entry e and the manifest both declare a version, and not the same one.
VersionsDiffer(e) ==
    /\ "version" \in e.keys /\ "version" \in manifest_a.keys
    /\ e.val["version"] # manifest_a.val["version"]

\* C11: with the manifest loaded as an object, 'name_mismatch' is recorded
\* once for each entry whose name differs from the manifest's and for no
\* other, 'version_mismatch' once for each entry that declares a version
\* different from the one the manifest declares and for no other; neither
\* count depends on the other check.
C11_MismatchesIndependent ==
    pc = "done" =>
        /\ CountCheck(result.errors, "name_mismatch") =
              Cardinality({i \in 1..Len(entries) : NamesDiffer(entries[i])})
        /\ CountCheck(result.errors, "version_mismatch") =
              Cardinality({i \in 1..Len(entries) : VersionsDiffer(entries[i])})
        /\ ~HasCheck(result.warnings, "name_mismatch")
        /\ ~HasCheck(result.warnings, "version_mismatch")

\* Two entries against the manifest a at version 1: the first differs in
\* name and in version, the second in version only.
C11_Witness ==
    /\ pc = "done"
    /\ Len(entries) = 2
    /\ NamesDiffer(entries[1]) /\ VersionsDiffer(entries[1])
    /\ ~NamesDiffer(entries[2]) /\ VersionsDiffer(entries[2])
    /\ CountCheck(result.errors, "name_mismatch") = 1
    /\ CountCheck(result.errors, "version_mismatch") = 2

----------------------------------------------------------------------------
(* Specification SpecMain: a run of main over a registry root.  Either the *)
(* root manifest and the registry vary (one plain plugin), or the plugin   *)
(* directories, their skills and the options do, or the two skills of one  *)
(* plugin with every inspector outcome.                                    *)

PluginNames == <<"A", "B", "C", "D">>

ManifestOk == Manifest("name" :> Str_a)
ManifestWarning == Manifest(("name" :> Str_a) @@ ("license" :> JStr(<<"X">>)))
ManifestFailed == Manifest("version" :> JStr(<<"1", ".", "2", ".", "3">>))

Outcomes == {"exit0", "nonzero", "timeout", "not_found", "os_error"}

\* A skills directory listing: nothing, or one skill s whose run ends in o.
SkillSetups ==
    {[dirs |-> <<>>, outcome |-> Run("exit0", "", "")]}
      \cup {[dirs |-> <<[name |-> "s", has_md |-> TRUE]>>, outcome |-> Run(o, "out", "err")] :
              o \in {"exit0", "nonzero", "timeout"}}

PluginSetups ==
    {[manifest |-> m, skills |-> k] :
        m \in {ManifestOk, ManifestWarning, ManifestFailed}, k \in SkillSetups}

\* The disk of a registry root with root manifest rf, registry reg and the
\* plugin directories ps (named PluginNames[1], PluginNames[2], ...); run
\* gives every skill's inspector outcome.
MainWorld(rf, reg, ps, run) ==
    /\ tree = {<<>>, MarketRoot}
                \cup (IF ps = <<>> THEN {} ELSE {PluginsDir})
                \cup {PluginDir(PluginNames[i]) : i \in 1..Len(ps)}
    /\ files = [d \in {MarketRoot} \cup {PluginDir(PluginNames[i]) : i \in 1..Len(ps)} |->
                  IF d = MarketRoot THEN rf
                  ELSE ps[CHOOSE i \in 1..Len(ps) : d = PluginDir(PluginNames[i])].manifest]
    /\ marketplace_json = reg
    /\ listing = [i \in 1..Len(ps) |-> [plugin |-> PluginNames[i], dirs |-> ps[i].dirs]]
    /\ inspector = run
    /\ processes = {}
    /\ run_calls = <<>>

\* main starts with the given options.
MainStarts(opts) ==
    /\ pc = "root"
    /\ self = "main"
    /\ result = None
    /\ opened = {}
    /\ options = opts
    /\ root_result = None
    /\ marketplace_result = None
    /\ plugin_results = <<>>
    /\ skill_results = <<>>
    /\ plugins_to_validate = <<>>
    /\ skills = <<>>
    /\ exit_code = -1

Options(plugin, skip_skills) ==
    [plugin |-> plugin, skip_skills |-> skip_skills, output |-> "text"]

RegistryFailed == Registry(<<EntryOf([name |-> Str_a, source |-> Absent,
                                      version |-> Absent, author |-> Absent])>>)

InitMainDocuments ==
    \E rf \in {NoFile, ManifestOk, ManifestWarning, MalformedFile(1),
               JsonFile("int", {}, NoFields)},
       reg \in {NoRegistry, Registry(<<>>), RegistryFailed,
                [NoRegistry EXCEPT !.kind = "malformed", !.lineno = 1],
                [NoRegistry EXCEPT !.kind = "unreadable"]} :
        /\ MainWorld(rf, reg, <<[manifest |-> ManifestOk, dirs |-> <<>>]>>, <<>>)
        /\ MainStarts(Options(NoPlugin, FALSE))

InitMainPlugins ==
    \E ps \in StringsUpTo(PluginSetups, MaxPlugins), skip \in BOOLEAN :
      \E plugin \in {NoPlugin} \cup {PluginNames[i] : i \in 1..Len(ps)} :
        /\ MainWorld(NoFile, NoRegistry,
                     [i \in 1..Len(ps) |->
                         [manifest |-> ps[i].manifest, dirs |-> ps[i].skills.dirs]],
                     [q \in {PluginNames[i] \o "/s" : i \in 1..Len(ps)} |->
                         ps[CHOOSE i \in 1..Len(ps) : q = PluginNames[i] \o "/s"].skills.outcome])
        /\ MainStarts(Options(plugin, skip))

InitMainSkills ==
    \E md1, md2 \in BOOLEAN, o1, o2 \in Outcomes :
        /\ MainWorld(NoFile, NoRegistry,
                     <<[manifest |-> ManifestOk,
                        dirs |-> <<[name |-> "s1", has_md |-> md1],
                                   [name |-> "s2", has_md |-> md2]>>]>>,
                     ("A/s1" :> Run(o1, "out", "err")) @@ ("A/s2" :> Run(o2, "out", "err")))
        /\ MainStarts(Options(NoPlugin, FALSE))

InitMain == InitMainDocuments \/ InitMainPlugins \/ InitMainSkills

NextMain == MainRoot \/ MainMarketplace \/ MainPlugin \/ MainSkill \/ MainExit

SpecMain == InitMain /\ [][NextMain]_vars

\* Every Result main has collected.
Collected ==
    (IF root_result = None THEN {} ELSE {root_result})
        \cup (IF marketplace_result = None THEN {} ELSE {marketplace_result})
        \cup DictValues(plugin_results) \cup DictValues(skill_results)

\* C3: when main runs to completion the exit code is 1 iff some collected
\* Result (root, registry, a plugin's or a skill's) is 'failed', and 0
\* otherwise; results that are all 'passed' or 'warning' exit 0.
C3_ExitCodeIffFailed ==
    pc = "exit" =>
        /\ exit_code \in {0, 1}
        /\ exit_code = 1 <=> (\E r \in Collected : r.status = "failed")
        /\ (\A r \in Collected : r.status \in {"passed", "warning"}) => exit_code = 0

\* main has ended with exit code 1 where the only failed Result is a
\* skill's, next to a plugin Result with status 'warning'.
C3_Witness ==
    /\ pc = "exit"
    /\ exit_code = 1
    /\ \E r \in DictValues(skill_results) : r.status = "failed"
    /\ \A r \in DictValues(plugin_results) : r.status # "failed"
    /\ \E r \in DictValues(plugin_results) : r.status = "warning"

\* The plugins main validates: the one of --plugin, or every plugin directory.
Validated ==
    IF options.plugin # NoPlugin THEN {options.plugin}
    ELSE IF PluginsDir \in tree THEN {listing[i].plugin : i \in 1..Len(listing)}
    ELSE {}

\* The qualified names of the discovered skills of the validated plugins.
Discovered ==
    UNION { { listing[i].plugin \o "/" \o listing[i].dirs[j].name :
                j \in {k \in 1..Len(listing[i].dirs) : listing[i].dirs[k].has_md} } :
            i \in {k \in 1..Len(listing) : listing[k].plugin \in Validated} }

\* C14: when main ends without --skip-skills, skill_results holds exactly
\* one Result for every discovered skill of every validated plugin, under
\* '<plugin>/<skill>', and that Result is the one validate_skill gives for
\* the skill's own inspector run, whatever the runs of the others.
C14_SkillIsolation ==
    (pc = "exit" /\ ~options.skip_skills) =>
        /\ DictKeys(skill_results) = Discovered
        /\ Len(skill_results) = Cardinality(Discovered)
        /\ \A i \in 1..Len(skill_results) :
              skill_results[i].value =
                  validate_skill(skill_results[i].key, TRUE,
                                 inspector[skill_results[i].key])

\* The first skill of a plugin timed out and its sibling, inspected after
\* it, passed.
C14_Witness ==
    /\ pc = "exit"
    /\ Len(skill_results) = 2
    /\ skill_results[1].key = "A/s1" /\ skill_results[2].key = "A/s2"
    /\ HasCheck(skill_results[1].value.errors, "skills_ref_timeout")
    /\ skill_results[2].value.status = "passed"

\* main has ended: it reached sys.exit, or an exception left it.
MainEnded == pc \in {"exit", "raised"}

\* C17: whatever the root manifest and the registry hold, when main has
\* ended every plugin directory to validate has a Result in plugin_results
\* and, unless skills are skipped, every discovered skill has one in
\* skill_results: no document's failure keeps another from being
\* validated.
C17_FailSlow ==
    MainEnded =>
        /\ DictKeys(plugin_results) = Validated
        /\ ~options.skip_skills => DictKeys(skill_results) = Discovered

----------------------------------------------------------------------------
(* Specification SpecEndToEnd: main over a registry with two entries.      *)
(* Plugin a lives in plugins/A with a valid manifest and a matching entry; *)
(* the entry of plugin b names a source that is not on disk.               *)

Version_123 == JStr(<<"1", ".", "2", ".", "3">>)

Dir_A_c == PluginDir("A") \o << <<"c">> >>

Source_A == JStr(<<".", "/", "plugins", "/", "A">>)

\* Sources of the entry of b: none of them exists.
MissingSources ==
    { JStr(<<".", "/", "plugins", "/", "B">>), JStr(<<"plugins", "/", "B">>),
      JStr(<<".", "/", "x">>), JStr(<<"B">>) }

\* Valid manifests of plugin a with the version its entry mirrors.
ValidPlugins ==
    { [manifest |-> ManifestOk, version |-> Absent],
      [manifest |-> Manifest(("name" :> Str_a) @@ ("version" :> Version_123)),
       version |-> Version_123],
      [manifest |-> Manifest(("name" :> Str_a) @@ ("version" :> Version_123)),
       version |-> Absent],
      [manifest |-> Manifest(("name" :> Str_a)
                                @@ ("commands" :> JStr(<<".", "/", "c">>))),
       version |-> Absent] }

InitEndToEnd ==
    \E rf \in {NoFile, ManifestOk}, A \in ValidPlugins, k \in SkillSetups,
       src \in MissingSources, first \in BOOLEAN, skip \in BOOLEAN :
      LET entry_a == EntryOf([name |-> Str_a, source |-> Source_A,
                              version |-> A.version, author |-> Absent])
          entry_b == EntryOf([name |-> Str_b, source |-> src,
                              version |-> Absent, author |-> Absent])
      IN
        /\ tree = {<<>>, MarketRoot, PluginsDir, PluginDir("A"), Dir_A_c}
        /\ files = [d \in {MarketRoot, PluginDir("A")} |->
                      IF d = MarketRoot THEN rf ELSE A.manifest]
        /\ marketplace_json =
              Registry(IF first THEN <<entry_a, entry_b>> ELSE <<entry_b, entry_a>>)
        /\ listing = <<[plugin |-> "A", dirs |-> k.dirs]>>
        /\ inspector = ("A/s" :> k.outcome)
        /\ processes = {}
        /\ run_calls = <<>>
        /\ MainStarts(Options(NoPlugin, skip))

SpecEndToEnd == InitEndToEnd /\ [][NextMain]_vars

\* The Result reported for the plugin called name, None when there is none.
PluginResult(name) ==
    IF name \in DictKeys(plugin_results)
    THEN plugin_results[CHOOSE i \in 1..Len(plugin_results) :
                            plugin_results[i].key = name].value
    ELSE None

----------------------------------------------------------------------------
(* Specification SpecSkill: SkillsValidator(plugin A).validate_skill on    *)
(* one skill directory, over every way the inspector's run ends and a few  *)
(* captured outputs.                                                       *)

SkillNames == {"s", "t"}
SampleStdout == {"", "out1", "out2"}
SampleStderr == {"", "err1"}

\* The skill directory validate_skill is called on, and its path.
skill_dir == listing[1].dirs[1]
skill_path == listing[1].plugin \o "/" \o skill_dir.name

SkillValidate ==
    /\ pc = "call"
    /\ self = "SkillsValidator"
    /\ result' = validate_skill(skill_path, skill_dir.has_md, inspector[skill_path])
    /\ run_calls' = subprocess_run(run_calls, skill_path, skill_dir.has_md)
    /\ pc' = "done"
    /\ UNCHANGED <<self, opened, tree, files, marketplace_json, listing, inspector,
                   processes, main_vars>>

InitSkill ==
    \E n \in SkillNames, md \in BOOLEAN, end \in Outcomes,
       out \in SampleStdout, err \in SampleStderr :
        /\ pc = "call"
        /\ self = "SkillsValidator"
        /\ result = None
        /\ opened = {}
        /\ tree = BareTree
        /\ files = (PluginRoot :> NoFile)
        /\ marketplace_json = NoRegistry
        /\ listing = <<[plugin |-> "A", dirs |-> <<[name |-> n, has_md |-> md]>>]>>
        /\ inspector = (("A/" \o n) :> Run(end, out, err))
        /\ processes = {}
        /\ run_calls = <<>>
        /\ MainIdle

SpecSkill == InitSkill /\ [][SkillValidate]_vars

\* The check code of each way the run can end other than exit status 0.
OutcomeCheck(end) ==
    CASE end = "nonzero" -> "skills_ref_validation"
      [] end = "timeout" -> "skills_ref_timeout"
      [] end = "not_found" -> "skills_ref_missing"
      [] end = "os_error" -> "skills_ref_error"

\* C13: for a skill directory holding SKILL.md, exit status 0 gives
\* 'passed' with no issue; every other end of the run gives exactly one
\* issue, an error with the check code of that end and of no other, and
\* for a non-zero exit the message carries the captured stdout and stderr.
C13_OutcomeToResult ==
    (pc = "done" /\ skill_dir.has_md) =>
        LET run == inspector[skill_path] IN
        /\ result.warnings = <<>> /\ result.info = <<>>
        /\ run.end = "exit0" => (result.status = "passed" /\ result.errors = <<>>)
        /\ run.end # "exit0" =>
              /\ result.status = "failed"
              /\ Len(result.errors) = 1
              /\ result.errors[1].check = OutcomeCheck(run.end)
              /\ result.errors[1].file = skill_path
        /\ run.end = "nonzero" => result.errors[1].about = <<run.stdout, run.stderr>>

\* The inspector exited with a non-zero status after writing to both
\* streams, and validate_skill has returned.
C13_Witness ==
    /\ pc = "done" /\ self = "SkillsValidator"
    /\ skill_dir.has_md
    /\ inspector[skill_path] = Run("nonzero", "out1", "err1")
    /\ HasCheck(result.errors, "skills_ref_validation")

----------------------------------------------------------------------------
(* Specification SpecInspector: validate_skill step by step, with the      *)
(* processes of the inspector run.  subprocess.run starts the launcher     *)
(* uvx; uvx fetches the tool with git and then runs skills-ref, each as a  *)
(* child of its own.  A process is "running", an "orphan" (running, its    *)
(* parent gone) or "reaped".                                               *)

Process(prog, state) == [prog |-> prog, state |-> state]

\* The programs uvx runs, in order: the fetch of the git+https source and
\* the tool itself.
LauncherChildren == <<"git", "skills-ref">>

IsRunning(prog) == \E q \in processes : q.prog = prog /\ q.state \in {"running", "orphan"}

Started(prog) == \E q \in processes : q.prog = prog

\* The process table with the state of prog set.
SetState(table, prog, state) ==
    {q \in table : q.prog # prog} \cup {Process(prog, state)}

\* Lines 493-503 and 514-519 up to the start of the subprocess: the
\* SKILL.md check, then Popen; a launch failure ends validate_skill at once.
InspectorLaunch ==
    /\ pc = "call"
    /\ self = "SkillsValidator"
    /\ IF ~skill_dir.has_md \/ inspector[skill_path].end \in {"not_found", "os_error"}
       THEN /\ result' = validate_skill(skill_path, skill_dir.has_md, inspector[skill_path])
            /\ pc' = "done"
            /\ UNCHANGED processes
       ELSE /\ processes' = {Process("uvx", "running")}
            /\ pc' = "run"
            /\ UNCHANGED result
    /\ run_calls' = subprocess_run(run_calls, skill_path, skill_dir.has_md)
    /\ UNCHANGED <<self, opened, tree, files, marketplace_json, listing, inspector, main_vars>>

\* uvx starts its next child.
LauncherSpawn ==
    /\ pc = "run"
    /\ \E i \in 1..Len(LauncherChildren) :
          /\ ~Started(LauncherChildren[i])
          /\ \A j \in 1..(i - 1) :
                Started(LauncherChildren[j]) /\ ~IsRunning(LauncherChildren[j])
          /\ processes' = processes \cup {Process(LauncherChildren[i], "running")}
    /\ UNCHANGED <<pc, self, result, opened, tree, files, marketplace_json, listing,
                   inspector, run_calls, main_vars>>

\* A child of uvx exits and uvx reaps it; in a run that ends by timeout
\* the tool itself does not exit in time.
ChildExits ==
    /\ pc = "run"
    /\ \E q \in processes :
          /\ q.prog # "uvx" /\ q.state = "running"
          /\ q.prog = "skills-ref" => inspector[skill_path].end # "timeout"
          /\ processes' = SetState(processes, q.prog, "reaped")
    /\ UNCHANGED <<pc, self, result, opened, tree, files, marketplace_json, listing,
                   inspector, run_calls, main_vars>>

\* uvx exits with the tool's status; communicate() reaps it and
\* subprocess.run returns (lines 514-526).
LauncherExits ==
    /\ pc = "run"
    /\ inspector[skill_path].end \in {"exit0", "nonzero"}
    /\ \A i \in 1..Len(LauncherChildren) :
          Started(LauncherChildren[i]) /\ ~IsRunning(LauncherChildren[i])
    /\ processes' = SetState(processes, "uvx", "reaped")
    /\ result' = validate_skill(skill_path, TRUE, inspector[skill_path])
    /\ pc' = "done"
    /\ UNCHANGED <<self, opened, tree, files, marketplace_json, listing, inspector,
                   run_calls, main_vars>>

\* timeout=30 elapses (line 518): subprocess.run kills the process it
\* started and waits for it, then raises TimeoutExpired (lines 528-533).
\* The children of uvx get no signal and lose their parent.
InspectorTimeout ==
    /\ pc = "run"
    /\ inspector[skill_path].end = "timeout"
    /\ processes' =
          {Process("uvx", "reaped")}
            \cup {Process(q.prog, IF q.state = "running" THEN "orphan" ELSE q.state) :
                    q \in {q2 \in processes : q2.prog # "uvx"}}
    /\ result' = validate_skill(skill_path, TRUE, inspector[skill_path])
    /\ pc' = "done"
    /\ UNCHANGED <<self, opened, tree, files, marketplace_json, listing, inspector,
                   run_calls, main_vars>>

\* An orphan ends on its own, some time after validate_skill has returned.
OrphanExits ==
    /\ pc = "done"
    /\ \E q \in processes :
          /\ q.state = "orphan"
          /\ processes' = SetState(processes, q.prog, "reaped")
    /\ UNCHANGED <<pc, self, result, opened, tree, files, marketplace_json, listing,
                   inspector, run_calls, main_vars>>

NextInspector ==
    \/ InspectorLaunch \/ LauncherSpawn \/ ChildExits
    \/ LauncherExits \/ InspectorTimeout \/ OrphanExits

SpecInspector == InitSkill /\ [][NextInspector]_vars

\* The process subprocess.run started is never running once validate_skill
\* has returned.
LauncherReaped == pc = "done" => ~IsRunning("uvx")

\* C15: once validate_skill has returned, and in particular once it has
\* returned 'skills_ref_timeout', every process of the inspector run has
\* been terminated and reaped: none is still running.
C15_NoInspectorLeftRunning ==
    pc = "done" => \A q \in processes : q.state = "reaped"

----------------------------------------------------------------------------
(* Specification SpecReport: main over one plugin, with root manifests,    *)
(* registries, plugin manifests and skill runs of every status, printed in *)
(* either format.                                                          *)

\* A valid manifest whose author is a bare string: one error, one info.
ManifestAuthorString == Manifest(("name" :> Str_a) @@ ("author" :> Str_b))

InitReport ==
    \E rf \in {NoFile, ManifestOk, ManifestAuthorString},
       reg \in {NoRegistry, Registry(<<>>), RegistryFailed},
       m \in {ManifestOk, ManifestWarning, ManifestFailed, ManifestAuthorString},
       k \in SkillSetups, o \in {"text", "json"} :
        /\ MainWorld(rf, reg, <<[manifest |-> m, dirs |-> k.dirs]>>, "A/s" :> k.outcome)
        /\ MainStarts([plugin |-> NoPlugin, skip_skills |-> FALSE, output |-> o])

SpecReport == InitReport /\ [][NextMain]_vars

\* What main prints before it exits (lines 728-732).
text_report ==
    print_text_results(root_result, marketplace_result, plugin_results, skill_results)

json_report ==
    print_json_results(root_result, marketplace_result, plugin_results, skill_results)

\* The lines below the header at position k of a text report: the issue
\* lines up to the next line that is not an issue's.
IssueLines(lines, k) ==
    {j \in (k + 1)..Len(lines) :
        \A i \in (k + 1)..j : lines[i].kind \in {"Error", "Warning", "info"}}

SeverityLabel(severity) ==
    CASE severity = "error" -> "Error"
      [] severity = "warning" -> "Warning"
      [] severity = "info" -> "info"

\* The text report shows the subject titled title with the status and
\* every issue of r.
TextExposes(lines, title, r) ==
    \E k \in 1..Len(lines) :
        /\ lines[k].text = title /\ lines[k].kind = r.status
        /\ \A n \in 1..Len(AllIssues(r)) :
              \E j \in IssueLines(lines, k) :
                  /\ lines[j].kind = SeverityLabel(AllIssues(r)[n].severity)
                  /\ lines[j].text = AllIssues(r)[n].message
                  /\ lines[j].about = AllIssues(r)[n].about

\* The object d of the JSON report holds the status and every issue of r.
JsonExposes(d, r) ==
    /\ d.status = r.status
    /\ \A n \in 1..Len(r.errors) :
          \E j \in 1..Len(d.errors) : d.errors[j] = IssueDict(r.errors[n])
    /\ \A n \in 1..Len(r.warnings) :
          \E j \in 1..Len(d.warnings) : d.warnings[j] = IssueDict(r.warnings[n])
    /\ \A n \in 1..Len(r.info) :
          \E j \in 1..Len(d.errors \o d.warnings) :
              (d.errors \o d.warnings)[j] = IssueDict(r.info[n])

\* C16: the report main prints, in either format, shows for every subject
\* (root, registry, each plugin, each skill) its status and every issue of
\* its Result, errors, warnings and info.
C16_ReportsExposeIssues ==
    pc = "exit" =>
        IF options.output = "json"
        THEN /\ root_result # None => JsonExposes(json_report.root_plugin, root_result)
             /\ marketplace_result # None =>
                   JsonExposes(json_report.marketplace, marketplace_result)
             /\ \A i \in 1..Len(plugin_results) :
                   \E j \in 1..Len(json_report.plugins) :
                       /\ json_report.plugins[j].key = plugin_results[i].key
                       /\ JsonExposes(json_report.plugins[j].value, plugin_results[i].value)
             /\ \A i \in 1..Len(skill_results) :
                   \E j \in 1..Len(json_report.skills) :
                       /\ json_report.skills[j].key = skill_results[i].key
                       /\ JsonExposes(json_report.skills[j].value, skill_results[i].value)
        ELSE /\ root_result # None => TextExposes(text_report, "Root Plugin", root_result)
             /\ marketplace_result # None =>
                   TextExposes(text_report, "Marketplace Registry", marketplace_result)
             /\ \A i \in 1..Len(plugin_results) :
                   TextExposes(text_report, "Plugin: " \o plugin_results[i].key,
                               plugin_results[i].value)
             /\ \A i \in 1..Len(skill_results) :
                   TextExposes(text_report, skill_results[i].key, skill_results[i].value)

\* The statuses of the subjects of the report: root, registry, every
\* plugin, every skill.
SubjectStatuses ==
    (IF root_result # None THEN <<root_result.status>> ELSE <<>>)
      \o (IF marketplace_result # None THEN <<marketplace_result.status>> ELSE <<>>)
      \o [i \in 1..Len(plugin_results) |-> plugin_results[i].value.status]
      \o [i \in 1..Len(skill_results) |-> skill_results[i].value.status]

SubjectsWith(status) ==
    Cardinality({i \in 1..Len(SubjectStatuses) : SubjectStatuses[i] = status})

\* The number printed on the summary line with the given text; 0 when the
\* line is not printed.
SummaryNumber(lines, text) ==
    LET hit == {k \in 1..Len(lines) : lines[k].kind = "summary" /\ lines[k].text = text}
    IN IF hit = {} THEN 0
       ELSE CHOOSE n \in 0..Len(lines) : \A k \in hit : lines[k].about = <<ToString(n)>>

\* C28: the passed, warning and failed counts of the summary add up to the
\* number of subjects of the report (root, registry, every plugin, every
\* skill), and no subject with status 'warning' is counted as failed.
C28_SummaryCountsAllSubjects ==
    pc = "exit" =>
        IF options.output = "json"
        THEN LET sm == json_report.summary IN
             /\ sm.plugins_passed + sm.plugins_warnings + sm.plugins_failed
                    + sm.skills_passed + sm.skills_failed = Len(SubjectStatuses)
             /\ sm.plugins_failed + sm.skills_failed <= SubjectsWith("failed")
        ELSE /\ SummaryNumber(text_report, "{} plugins passed")
                    + SummaryNumber(text_report, "{} plugins with warnings")
                    + SummaryNumber(text_report, "{} plugins failed")
                    + SummaryNumber(text_report, "{} skills validated")
                  = Len(SubjectStatuses)
             /\ SummaryNumber(text_report, "{} plugins failed") <= SubjectsWith("failed")

\* The summary counts the plugins, and only them, by status.
SummaryCountsPlugins ==
    pc = "exit" =>
        /\ SummaryNumber(text_report, "{} plugins passed")
              = CountStatus(plugin_results, {"passed"})
        /\ SummaryNumber(text_report, "{} plugins with warnings")
              = CountStatus(plugin_results, {"warning"})
        /\ SummaryNumber(text_report, "{} plugins failed")
              = CountStatus(plugin_results, {"failed"})
        /\ SummaryNumber(text_report, "{} skills validated") = Len(skill_results)

----------------------------------------------------------------------------
(* Specification SpecOrder: one ValidationResult under add calls of mixed  *)
(* severities, the message of the n-th call carrying the number n.         *)

\* The value interpolated into the message of the next call.
NextOrdinal == <<ToString(IssueCount(result) + 1)>>

OrderedError ==
    /\ pc = "result"
    /\ IssueCount(result) < MaxIssues
    /\ \E c \in SampleChecks :
          result' = add_error(result, c, "issue {}", NextOrdinal, SampleFile, NoLine)
    /\ UNCHANGED <<pc, self, opened, disk, main_vars>>

OrderedWarning ==
    /\ pc = "result"
    /\ IssueCount(result) < MaxIssues
    /\ \E c \in SampleChecks :
          result' = add_warning(result, c, "issue {}", NextOrdinal, SampleFile, NoLine)
    /\ UNCHANGED <<pc, self, opened, disk, main_vars>>

OrderedInfo ==
    /\ pc = "result"
    /\ IssueCount(result) < MaxIssues
    /\ \E c \in SampleChecks :
          result' = add_info(result, c, "issue {}", NextOrdinal, SampleFile)
    /\ UNCHANGED <<pc, self, opened, disk, main_vars>>

NextOrder == OrderedError \/ OrderedWarning \/ OrderedInfo

SpecOrder == InitResult /\ [][NextOrder]_vars

\* The issue lines of the text report of the Result, and its issues as the
\* JSON report lists them.
reported == Tail(_print_result("Plugin", result))
listed == _result_to_dict(result).errors \o _result_to_dict(result).warnings

\* The position in the sequence of calls of the call that added the issue
\* shown with the interpolated value about.
Ordinal(about) == CHOOSE n \in 1..IssueCount(result) : about = <<ToString(n)>>

KindRank(kind) == CASE kind = "Error" -> 0 [] kind = "Warning" -> 1 [] kind = "info" -> 2

\* C19 as stated: the issues are reported in the order in which they were
\* added, whatever their severities.
C19_InsertionOrderReported ==
    /\ \A i, j \in 1..Len(reported) :
          i < j => Ordinal(reported[i].about) < Ordinal(reported[j].about)
    /\ \A i, j \in 1..Len(listed) :
          i < j => Ordinal(listed[i].about) < Ordinal(listed[j].about)

\* C19, amended: every issue is reported once; the report lists the
\* errors, then the warnings, then the info issues, and within one
\* severity the issues are in the order in which they were added.
C19_OrderWithinSeverity ==
    /\ Len(reported) = IssueCount(result)
    /\ \A i, j \in 1..Len(reported) :
          i < j =>
            /\ KindRank(reported[i].kind) <= KindRank(reported[j].kind)
            /\ reported[i].kind = reported[j].kind =>
                  Ordinal(reported[i].about) < Ordinal(reported[j].about)
    /\ \A k \in 1..Len(result.errors) : listed[k] = IssueDict(result.errors[k])
    /\ \A i, j \in 1..Len(result.errors) :
          i < j => Ordinal(result.errors[i].about) < Ordinal(result.errors[j].about)
    /\ \A i, j \in 1..Len(result.warnings) :
          i < j => Ordinal(result.warnings[i].about) < Ordinal(result.warnings[j].about)
    /\ \A i, j \in 1..Len(result.info) :
          i < j => Ordinal(result.info[i].about) < Ordinal(result.info[j].about)

\* A warning was added first, then two errors: the report shows the two
\* errors, in their order, ahead of the warning.
C19_Witness ==
    /\ pc = "result"
    /\ Len(reported) = 3
    /\ reported[1].kind = "Error" /\ Ordinal(reported[1].about) = 2
    /\ reported[2].kind = "Error" /\ Ordinal(reported[2].about) = 3
    /\ reported[3].kind = "Warning" /\ Ordinal(reported[3].about) = 1

----------------------------------------------------------------------------
(* Specification SpecAuthor: validate on a manifest object that holds an   *)
(* 'author' of every shape, with and without the fields checked after it.  *)

AuthorValues ==
    {JStr(<<"a">>), JStr(<<>>), JDict({}), JDict({"name"}), JDict({"email"}),
     JInt, JNone, JList(<<>>), JList(<<JStr(<<"a">>)>>)}

AuthorManifests ==
    { ManifestOf([name |-> n, version |-> Absent, author |-> a, license |-> l,
                  repository |-> r, keywords |-> k, commands |-> c,
                  agents |-> Absent, skills |-> Absent]) :
        n \in Optional(SampleField.name), a \in AuthorValues,
        l \in Optional(SampleField.license),
        r \in Optional(SampleField.repository),
        k \in Optional(SampleField.keywords),
        c \in Optional({JStr(<<"/","c">>)}) }

InitAuthor ==
    \E f \in AuthorManifests, t \in SampleTrees :
        /\ pc = "call" /\ self = "PluginJsonValidator"
        /\ result = None /\ opened = {}
        /\ tree = t /\ files = (PluginRoot :> f)
        /\ marketplace_json = NoRegistry
        /\ NoSkills /\ MainIdle

SpecAuthor == InitAuthor /\ [][PluginValidate]_vars

author == plugin_json.val["author"]

AuthorErrorChecks == {"author_format", "author_name", "author_type"}

\* The error that the shape of the author value calls for; "" for none.
AuthorErrorFor(a) ==
    IF isinstance(a, "str") THEN "author_format"
    ELSE IF isinstance(a, "dict")
    THEN (IF "name" \in a.keys THEN "" ELSE "author_name")
    ELSE "author_type"

\* C23: the author value records the one error its shape calls for (a bare
\* string 'author_format' with exactly one info issue 'author_fix', an object
\* without 'name' 'author_name', an object with 'name' nothing, any other
\* type 'author_type'), and the license, repository, keywords and path
\* checks still run after it.
C23_AuthorErrorByShape ==
    (pc # "call" /\ "author" \in plugin_json.keys) =>
        /\ pc = "done"
        /\ \A c \in AuthorErrorChecks :
              CountCheck(result.errors, c) = (IF c = AuthorErrorFor(author) THEN 1 ELSE 0)
        /\ \A c \in AuthorErrorChecks \cup {"author_fix"} :
              ~HasCheck(result.warnings, c)
        /\ Len(result.info) = (IF isinstance(author, "str") THEN 1 ELSE 0)
        /\ isinstance(author, "str") =>
              /\ result.info[1].check = "author_fix"
              /\ result.info[1].about = author.s
        /\ "license" \in plugin_json.keys => HasCheck(result.warnings, "license_spdx")
        /\ "repository" \in plugin_json.keys => HasCheck(result.warnings, "repository_url")
        /\ "keywords" \in plugin_json.keys => HasCheck(result.errors, "keyword_type")
        /\ "commands" \in plugin_json.keys => HasCheck(result.errors, "commands_absolute")

C23_Witness ==
    /\ pc = "done"
    /\ "author" \in plugin_json.keys /\ isinstance(author, "str")
    /\ {"license", "repository", "keywords", "commands"} \subseteq plugin_json.keys
    /\ HasCheck(result.errors, "author_format")
    /\ HasCheck(result.info, "author_fix")
    /\ HasCheck(result.warnings, "license_spdx")
    /\ HasCheck(result.errors, "commands_absolute")

----------------------------------------------------------------------------
(* Specification SpecSequence: the registry validator on a registry whose  *)
(* entries are all objects; a name is absent, a string or a list.          *)

ObjectEntries ==
    { EntryOf([name |-> n, source |-> src, version |-> Absent, author |-> Absent]) :
        n \in {Absent, Str_a, Str_b, JList(<<>>)},
        src \in {Absent, Source_a, Source_x} }

InitSequence ==
    \E es \in StringsUpTo(ObjectEntries, MaxEntries),
       t \in { {<<>>, MarketRoot, Dir_a}, {<<>>, MarketRoot, Dir_a, Dir_x} } :
        RegistryAt(Registry(es), t, Dir_a :> Manifest_a)

SpecSequence == InitSequence /\ [][MarketplaceValidate]_vars

\* The Result of validate on the registry that holds the entry e alone, on
\* the same disk.
AloneResult(e) ==
    MarketplaceValidator_validate(MarketRoot, Registry(<<e>>), tree, files).result

RECURSIVE EachAlone(_, _)
\* The check codes of the given severity that the entries es record when
\* each is validated alone, in document order.
EachAlone(es, severity) ==
    IF es = <<>> THEN <<>>
    ELSE Checks(AloneResult(Head(es))[severity]) \o EachAlone(Tail(es), severity)

NotDuplicate(check) == check # "duplicate_plugin"

\* Every entry is examined: apart from 'duplicate_plugin', which follows
\* the names of the earlier entries, the Result holds the issues of each
\* entry validated alone, in document order.
EntriesExamined ==
    /\ SelectSeq(Checks(result.errors), NotDuplicate) = EachAlone(entries, "errors")
    /\ Checks(result.warnings) = EachAlone(entries, "warnings")
    /\ Checks(result.info) = EachAlone(entries, "info")
    /\ CountCheck(result.errors, "duplicate_plugin") =
          Cardinality({i \in 1..Len(entries) : RepeatsEarlierName(i)})

HashableNames ==
    \A i \in 1..Len(entries) :
        HasName(entries[i]) => isinstance(entries[i].val["name"], "str")

\* The entries whose names are strings are examined one by one.
NamedEntriesExamined ==
    (pc # "call" /\ HashableNames) => (pc = "done" /\ EntriesExamined)

\* C24: validate examines every entry of a sequence of object entries in
\* document order; an error in one entry never stops the entries after it,
\* and the issues of an entry depend only on that entry, on the disk under
\* its source and, for 'duplicate_plugin', on the names before it.
C24_EveryEntryExamined ==
    pc # "call" => (pc = "done" /\ EntriesExamined)

----------------------------------------------------------------------------
(* Specification SpecDelegation: the subprocess.run calls.  Either main    *)
(* runs over one plugin with two skill directories, each with or without   *)
(* SKILL.md, or validate_skill is called on one directory directly.        *)

InitDelegation == InitMainSkills \/ InitSkill

NextDelegation == NextMain \/ SkillValidate

SpecDelegation == InitDelegation /\ [][NextDelegation]_vars

\* The paths of the subdirectories of the skills location of plugin i, and
\* of those that hold SKILL.md.
SkillDirPaths(i) ==
    {listing[i].plugin \o "/" \o listing[i].dirs[j].name : j \in 1..Len(listing[i].dirs)}

MarkedDirPaths(i) ==
    {listing[i].plugin \o "/" \o listing[i].dirs[j].name :
        j \in {k \in 1..Len(listing[i].dirs) : listing[i].dirs[k].has_md}}

AllMarkedDirPaths == UNION {MarkedDirPaths(i) : i \in 1..Len(listing)}

\* The skills of the plugin being validated: those already validated and
\* those the loop still holds.
SkillsOfCurrent(i) ==
    (DictKeys(skill_results) \cup
        {listing[i].plugin \o "/" \o skills[j] : j \in 1..Len(skills)})
      \cap SkillDirPaths(i)

\* C27: every subprocess.run call is the inspector's command line with the
\* path of a skill directory holding SKILL.md as its one argument after
\* 'validate', and no skill has two calls; validate_skill on a directory
\* without SKILL.md records the one error 'skill_md_missing' and makes no
\* call; discover_skills returns exactly the subdirectories that hold
\* SKILL.md.
C27_InspectorOnlyForSkills ==
    /\ \A k \in 1..Len(run_calls) :
          /\ Len(run_calls[k]) = 6
          /\ SubSeq(run_calls[k], 4, 5) = <<"skills-ref", "validate">>
          /\ run_calls[k][6] \in AllMarkedDirPaths
    /\ \A k1, k2 \in 1..Len(run_calls) :
          run_calls[k1][6] = run_calls[k2][6] => k1 = k2
    /\ (self = "SkillsValidator" /\ pc = "done" /\ ~skill_dir.has_md) =>
          /\ Checks(result.errors) = <<"skill_md_missing">>
          /\ result.warnings = <<>> /\ result.info = <<>>
          /\ run_calls = <<>>
    /\ (self = "main" /\ pc = "skills") =>
          \A i \in 1..Len(listing) :
              listing[i].plugin = Head(plugins_to_validate) =>
                  SkillsOfCurrent(i) = MarkedDirPaths(i)
    /\ (self = "main" /\ pc = "exit") =>
          {run_calls[k][6] : k \in 1..Len(run_calls)} = Discovered

\* main has ended over a plugin whose first skill directory holds SKILL.md
\* and whose second does not: one call, for the first.
C27_Witness ==
    /\ self = "main" /\ pc = "exit"
    /\ Len(listing) = 1 /\ Len(listing[1].dirs) = 2
    /\ listing[1].dirs[1].has_md /\ ~listing[1].dirs[2].has_md
    /\ run_calls = <<cmd("A/s1")>>

----------------------------------------------------------------------------
(* Specification SpecUnloadable: main over a registry with one entry that  *)
(* points at the directory a outside plugins/, whose manifest file is      *)
(* malformed, unreadable, not an object, or an object; plugin A under      *)
(* plugins/ is valid.                                                      *)

UnloadableContents ==
    ManifestContents \cup {JsonFile("int", {}, NoFields)}

InitUnloadable ==
    \E rf \in {NoFile, ManifestOk, ManifestWarning},
       v \in {Absent, JStr(<<"1">>)}, au \in {Absent, Str_a, JDict({"name"})},
       f \in UnloadableContents, m \in {ManifestOk, ManifestWarning},
       k \in SkillSetups, skip \in BOOLEAN :
        /\ tree = {<<>>, MarketRoot, Dir_a, PluginsDir, PluginDir("A")}
        /\ files = [d \in {MarketRoot, Dir_a, PluginDir("A")} |->
                      IF d = MarketRoot THEN rf ELSE IF d = Dir_a THEN f ELSE m]
        /\ marketplace_json =
              Registry(<<EntryOf([name |-> Str_a, source |-> Source_a,
                                  version |-> v, author |-> au])>>)
        /\ listing = <<[plugin |-> "A", dirs |-> k.dirs]>>
        /\ inspector = ("A/s" :> k.outcome)
        /\ processes = {}
        /\ run_calls = <<>>
        /\ MainStarts(Options(NoPlugin, skip))

SpecUnloadable == InitUnloadable /\ [][NextMain]_vars

\* The manifest file the entry points at exists and does not load as a
\* JSON object.
Unloadable ==
    /\ manifest_a.kind # "missing"
    /\ ~(manifest_a.kind = "json" /\ manifest_a.top = "dict")

\* A subject other than the registry has failed.
OtherSubjectFailed ==
    \/ root_result # None /\ root_result.status = "failed"
    \/ \E r \in DictValues(plugin_results) : r.status = "failed"
    \/ \E r \in DictValues(skill_results) : r.status = "failed"

\* C29: when the manifest at an entry's source exists and cannot be loaded
\* as a JSON object, the entry records no error, only the one warning
\* 'plugin_json_read', and none of the cross-reference checks; the registry
\* then has status 'warning' and the exit status is non-zero only if
\* another subject failed.
C29_UnloadableManifestWarns ==
    (pc = "exit" /\ Unloadable) =>
        /\ marketplace_result # None
        /\ marketplace_result.errors = <<>>
        /\ Checks(marketplace_result.warnings) = <<"plugin_json_read">>
        /\ marketplace_result.info = <<>>
        /\ marketplace_result.status = "warning"
        /\ (exit_code # 0) <=> OtherSubjectFailed

\* main has exited with status 0 on a registry whose entry, with a bare
\* string author and a version, points at a malformed manifest.
C29_Witness ==
    /\ pc = "exit"
    /\ manifest_a.kind = "malformed"
    /\ BareStringAuthor /\ "version" \in entry.keys
    /\ marketplace_result.status = "warning"
    /\ HasCheck(marketplace_result.warnings, "plugin_json_read")
    /\ exit_code = 0

----------------------------------------------------------------------------
(* Specification SpecSummary: the Results of validate_skill and the JSON   *)
(* summary.  main runs over one plugin of every status with one skill, or  *)
(* over one plugin with two skill directories and every end of the         *)
(* inspector's run; or validate_skill is called on one directory directly. *)

InitSummary == InitReport \/ InitMainSkills \/ InitSkill

NextSummary == NextMain \/ SkillValidate

SpecSummary == InitSummary /\ [][NextSummary]_vars

\* r holds no issue and is 'passed', or one error and is 'failed'.
SkillResultShape(r) ==
    /\ r.warnings = <<>> /\ r.info = <<>>
    /\ Len(r.errors) <= 1
    /\ r.status = (IF r.errors = <<>> THEN "passed" ELSE "failed")

\* C30: every Result of validate_skill holds at most one issue, an error,
\* and has status 'passed' or 'failed', never 'warning'; in the JSON
\* summary skills_passed + skills_failed = total_skills and plugins_passed
\* + plugins_warnings + plugins_failed = total_plugins.
C30_SkillResultsAndSummary ==
    /\ \A i \in 1..Len(skill_results) : SkillResultShape(skill_results[i].value)
    /\ (self = "SkillsValidator" /\ pc = "done") => SkillResultShape(result)
    /\ pc = "exit" =>
          LET sm == json_report.summary IN
          /\ sm.total_skills = Len(skill_results)
          /\ sm.skills_passed + sm.skills_failed = sm.total_skills
          /\ sm.total_plugins = Len(plugin_results)
          /\ sm.plugins_passed + sm.plugins_warnings + sm.plugins_failed = sm.total_plugins

\* main has exited with two skills validated, the first timed out and the
\* second passed: one of each in the summary.
C30_Witness ==
    /\ pc = "exit"
    /\ Len(skill_results) = 2
    /\ HasCheck(skill_results[1].value.errors, "skills_ref_timeout")
    /\ skill_results[2].value.status = "passed"
    /\ json_report.summary.skills_passed = 1
    /\ json_report.summary.skills_failed = 1
    /\ json_report.summary.total_skills = 2
    /\ json_report.summary.total_plugins = 1

====
